---- MODULE Spec2Model ----
(***************************************************************************)
(* A model of the component verification scripts: the health-check loop    *)
(* of health.py and sample-yaml-reading.py (ClientManager, the check       *)
(* functions, HEALTH_CHECK_REGISTRY, the loop over the components) and the *)
(* inventory comparison of new.py.                                         *)
(*                                                                         *)
(* Text is a sequence of characters (one-character strings), so that       *)
(* Python's substring test, str.endswith and str.lower are computed.  A    *)
(* status line is the f-string that builds it: its template and its        *)
(* arguments.  A provider call is an input of the step that makes it: the  *)
(* response is drawn from the shapes the provider can answer with (a       *)
(* listing, a ClientError, any other exception).                           *)
(***************************************************************************)
EXTENDS Integers, Sequences, FiniteSets, TLC

\* ------------------------------------------------------------------ bounds
\* Components in one deployment file.
MaxComps == 2
\* Calls of ClientManager.get made directly on one manager.
MaxGets == 3
\* Characters of a declared component name drawn for one check function.
MaxNameLen == 2
\* Elements of one provider listing.
MaxList == 2

\* The largest exit code of the external CLI process.
MaxReturnCode == 2

\* ------------------------------------------------------------------ text
Alphabet == {"a", "b"}

\* Every text over Alphabet of n characters at most, the empty one included.
StringsUpTo(n) == UNION {[1..k -> Alphabet] : k \in 0..n}

\* Python's `sub in s` on str.
Contains(sub, s) ==
    \E k \in 0..(Len(s) - Len(sub)) : SubSeq(s, k + 1, k + Len(sub)) = sub

\* Python's `a or b` on two str-or-None values ("" and None are both falsy).
Or(a, b) == IF a # "" THEN a ELSE b

\* next((x for x in xs if name in key(x)), None): the index of the first element
\* whose key contains name, 0 for None.  keys is the sequence of the keys.
FirstContaining(name, keys) ==
    IF \E k \in 1..Len(keys) : Contains(name, keys[k])
    THEN CHOOSE k \in 1..Len(keys) :
            /\ Contains(name, keys[k])
            /\ \A j \in 1..(k - 1) : ~Contains(name, keys[j])
    ELSE 0

\* ------------------------------------------------------------------ ClientManager
Services == {"rds", "ec2", "elbv2", "iam", "ecs", "kms", "sqs", "lambda"}

\* `service_name not in self._clients`: the cache holds NoClient for the name.
NoClient == [id |-> 0, service |-> "", region |-> ""]

\* ClientManager.__init__
ClientManager_init(region) ==
    [_clients |-> [s \in Services |-> NoClient], region |-> region]

\* boto3.client(service_name, region_name=...): a new object, with identity id.
boto3_client(id, service_name, region_name) ==
    [id |-> id, service |-> service_name, region |-> region_name]

\* A get that builds a client on every call, cached or not.
ClientManager_get_nocache(self, service_name, region_override, id) ==
    LET c == boto3_client(id, service_name, Or(region_override, self.region))
    IN [self |-> [self EXCEPT !._clients[service_name] = c],
        client |-> c, created |-> <<c>>]

\* ClientManager.get: id is the identity the next object built would get.
ClientManager_get(self, service_name, region_override, id) ==
    IF self._clients[service_name] = NoClient
    THEN LET c == boto3_client(id, service_name, Or(region_override, self.region))
         IN [self |-> [self EXCEPT !._clients[service_name] = c],
             client |-> c, created |-> <<c>>]
    ELSE [self |-> self, client |-> self._clients[service_name], created |-> <<>>]

\* ------------------------------------------------------------------ provider responses
\* What one provider call answers: tag "ok" with the parsed body, "nokey" (a
\* response without the key the caller indexes), "ClientError" with the error's
\* code and message, or "Exception" (the call raises anything that is not a
\* ClientError: no credentials, no endpoint, a timeout).
Ok(body) == [tag |-> "ok", body |-> body, code |-> "", message |-> <<>>]
NoKey(body) == [tag |-> "nokey", body |-> body, code |-> "", message |-> <<>>]
ClientError(body, code) ==
    [tag |-> "ClientError", body |-> body, code |-> code, message |-> <<code>>]
OtherException(body) ==
    [tag |-> "Exception", body |-> body, code |-> "", message |-> <<>>]

\* No response: the call is never made.
NoResp == Ok(<<>>)

\* ------------------------------------------------------------------ check functions
\* What a check function hands back: the status string it returns, or the
\* exception that leaves it; with the client manager as the call left it, the
\* client its get returned (NoClient without a get), the clients it built and
\* the provider calls it made.
Status(fmt, args) == [fmt |-> fmt, args |-> args]
NoStatus == Status("", <<>>)

Return(g, calls, status) ==
    [raised |-> FALSE, exc |-> "", status |-> status,
     cm |-> g.self, client |-> g.client, created |-> g.created, calls |-> calls]

Raise(g, calls, exc) ==
    [raised |-> TRUE, exc |-> exc, status |-> NoStatus,
     cm |-> g.self, client |-> g.client, created |-> g.created, calls |-> calls]

\* A check that has not touched the client manager.
Untouched(cm) == [self |-> cm, client |-> NoClient, created |-> <<>>]

Call(api, arg) == [api |-> api, arg |-> arg]

\* except ClientError as e: return f"AWS API Error: {e.response['Error']['Message']}"
ApiError(resp) == Status("AWS API Error: {0}", <<resp.message>>)

\* The keys the listing-based checks search, one per listed element.
Keys(items, field) == [k \in 1..Len(items) |-> items[k][field]]

\* What a failed provider call does to a check whose only handler is
\* `except ClientError`: the status for a ClientError, the exception otherwise.
Failed(g, calls, resp) ==
    IF resp.tag = "ClientError" THEN Return(g, calls, ApiError(resp))
    ELSE IF resp.tag = "nokey" THEN Raise(g, calls, "KeyError")
    ELSE Raise(g, calls, "Exception")

\* env: cm (the client manager), id (the next client identity), resp and resp2
\* (the provider's answers to the first and second call).
_check_rds_aurora(name, properties, env) ==
    LET g == ClientManager_get(env.cm, "rds", "", env.id)
        calls == <<Call("describe_db_clusters", <<>>)>>
        clusters == env.resp.body
        k == FirstContaining(name, Keys(clusters, "DBClusterIdentifier"))
    IN IF env.resp.tag # "ok" THEN Failed(g, calls, env.resp)
       ELSE IF k # 0
       THEN Return(g, calls, Status("Found Cluster: {0}, Status: {1}",
                <<clusters[k].DBClusterIdentifier, clusters[k].Status>>))
       ELSE Return(g, calls, Status("Cluster containing name '{0}' not found.", <<name>>))

_check_management_host(name, properties, env) ==
    LET g == ClientManager_get(env.cm, "ec2", "", env.id)
        call1 == Call("describe_instances", <<"*">> \o name \o <<"*">>)
        reservations == env.resp.body
        instance == reservations[1].Instances[1]
        call2 == Call("describe_instance_status", instance.InstanceId)
        statuses == env.resp2.body
    IN IF env.resp.tag # "ok" THEN Failed(g, <<call1>>, env.resp)
       ELSE IF reservations = <<>> \/ reservations[1].Instances = <<>>
       THEN Return(g, <<call1>>,
                Status("Instance with name tag like '*{0}*' not found.", <<name>>))
       ELSE IF env.resp2.tag # "ok" THEN Failed(g, <<call1, call2>>, env.resp2)
       ELSE IF statuses # <<>>
       THEN Return(g, <<call1, call2>>,
                Status("Found Instance: {0}, State: {1}, InstanceStatus: {2}, SystemStatus: {3}",
                       <<instance.InstanceId, instance.State,
                         statuses[1].InstanceStatus, statuses[1].SystemStatus>>))
       ELSE Return(g, <<call1, call2>>,
                Status("Found Instance: {0}, State: {1}. Status checks not available (may be stopped).",
                       <<instance.InstanceId, instance.State>>))

_check_load_balancer(name, properties, env) ==
    LET g == ClientManager_get(env.cm, "elbv2", "", env.id)
        calls == <<Call("describe_load_balancers", <<>>)>>
        lbs == env.resp.body
        k == FirstContaining(name, Keys(lbs, "LoadBalancerName"))
    IN IF env.resp.tag # "ok" THEN Failed(g, calls, env.resp)
       ELSE IF k # 0
       THEN Return(g, calls, Status("Found LB: {0}, State: {1}",
                <<lbs[k].LoadBalancerName, lbs[k].State>>))
       ELSE Return(g, calls,
                Status("Load Balancer containing name '{0}' not found.", <<name>>))

_check_iam_role(name, properties, env) ==
    LET g == ClientManager_get(env.cm, "iam", "", env.id)
        calls == <<Call("list_roles", <<>>)>>
        roles == env.resp.body
        k == FirstContaining(name, Keys(roles, "RoleName"))
    IN IF env.resp.tag # "ok" THEN Failed(g, calls, env.resp)
       ELSE IF k # 0
       THEN Return(g, calls, Status("Found Role containing name: {0}", <<roles[k].RoleName>>))
       ELSE Return(g, calls, Status("Role containing name '{0}' not found.", <<name>>))

\* response.get('failures') and response.get('clusters') read a missing key as None.
_check_ecs_cluster(name, properties, env) ==
    LET g == ClientManager_get(env.cm, "ecs", "", env.id)
        calls == <<Call("describe_clusters", name)>>
        response == env.resp.body
    IN IF env.resp.tag \notin {"ok", "nokey"} THEN Failed(g, calls, env.resp)
       ELSE IF response.failures # <<>>
       THEN Return(g, calls, Status("ECS Cluster '{0}' not found or error: {1}",
                <<name, response.failures[1].reason>>))
       ELSE IF response.clusters # <<>>
       THEN Return(g, calls,
                Status("Found Cluster: {0}, Status: {1}, ActiveServices: {2}",
                       <<response.clusters[1].clusterName, response.clusters[1].status,
                         response.clusters[1].activeServicesCount>>))
       ELSE Return(g, calls, Status("ECS Cluster '{0}' not found.", <<name>>))

\* A KMS check that asks for the key under the component's name.
_check_kms_key_byName(name, properties, env) ==
    LET alias_name == properties.key_alias
        g == ClientManager_get(env.cm, "kms", "", env.id)
        calls == <<Call("describe_key", <<"alias/">> \o name)>>
    IN IF properties.kind = "null" THEN Raise(Untouched(env.cm), <<>>, "AttributeError")
       ELSE IF alias_name = <<>>
       THEN Return(Untouched(env.cm), <<>>,
                Status("Skipped: 'key_alias' not defined in properties.", <<>>))
       ELSE IF env.resp.tag = "ok"
       THEN Return(g, calls, Status("Found Key: {0} via alias '{1}', State: {2}",
                <<env.resp.body.KeyId, alias_name, env.resp.body.KeyState>>))
       ELSE IF env.resp.tag = "ClientError" /\ env.resp.code = "NotFoundException"
       THEN Return(g, calls, Status("KMS Key with alias '{0}' not found.", <<alias_name>>))
       ELSE Failed(g, calls, env.resp)

\* properties.get('key_alias') is outside the try: a properties of None raises.
_check_kms_key(name, properties, env) ==
    LET alias_name == properties.key_alias
        g == ClientManager_get(env.cm, "kms", "", env.id)
        calls == <<Call("describe_key", <<"alias/">> \o alias_name)>>
    IN IF properties.kind = "null" THEN Raise(Untouched(env.cm), <<>>, "AttributeError")
       ELSE IF alias_name = <<>>
       THEN Return(Untouched(env.cm), <<>>,
                Status("Skipped: 'key_alias' not defined in properties.", <<>>))
       ELSE IF env.resp.tag = "ok"
       THEN Return(g, calls, Status("Found Key: {0} via alias '{1}', State: {2}",
                <<env.resp.body.KeyId, alias_name, env.resp.body.KeyState>>))
       ELSE IF env.resp.tag = "ClientError" /\ env.resp.code = "NotFoundException"
       THEN Return(g, calls, Status("KMS Key with alias '{0}' not found.", <<alias_name>>))
       ELSE Failed(g, calls, env.resp)

\* An SQS check that empties the queue it has found.
_check_sqs_queue_purging(name, properties, env) ==
    LET g == ClientManager_get(env.cm, "sqs", "", env.id)
        calls == <<Call("list_queues", <<>>)>>
        queue_urls == IF env.resp.tag = "nokey" THEN <<>> ELSE env.resp.body
        k == FirstContaining(name, queue_urls)
    IN IF env.resp.tag \notin {"ok", "nokey"} THEN Failed(g, calls, env.resp)
       ELSE IF k # 0 /\ queue_urls[k] # <<>>
       THEN Return(g, calls \o <<Call("purge_queue", queue_urls[k])>>,
                   Status("Found SQS Queue: {0}", <<queue_urls[k]>>))
       ELSE Return(g, calls, Status("SQS Queue containing name '{0}' not found.", <<name>>))

\* response.get('QueueUrls', []) reads a missing key as the empty list; the
\* elements are the queue URLs themselves.
_check_sqs_queue(name, properties, env) ==
    LET g == ClientManager_get(env.cm, "sqs", "", env.id)
        calls == <<Call("list_queues", <<>>)>>
        queue_urls == IF env.resp.tag = "nokey" THEN <<>> ELSE env.resp.body
        k == FirstContaining(name, queue_urls)
    IN IF env.resp.tag \notin {"ok", "nokey"} THEN Failed(g, calls, env.resp)
       ELSE IF k # 0 /\ queue_urls[k] # <<>>
       THEN Return(g, calls, Status("Found SQS Queue: {0}", <<queue_urls[k]>>))
       ELSE Return(g, calls, Status("SQS Queue containing name '{0}' not found.", <<name>>))

\* func['Runtime'] raises KeyError for a function listed without a Runtime (the
\* model writes the missing key as the empty text); func.get('State', 'N/A').
_check_lambda_function(name, properties, env) ==
    LET g == ClientManager_get(env.cm, "lambda", "", env.id)
        calls == <<Call("list_functions", <<>>)>>
        functions == env.resp.body
        k == FirstContaining(name, Keys(functions, "FunctionName"))
    IN IF env.resp.tag # "ok" THEN Failed(g, calls, env.resp)
       ELSE IF k = 0
       THEN Return(g, calls,
                Status("Lambda function containing name '{0}' not found.", <<name>>))
       ELSE IF functions[k].Runtime = <<>> THEN Raise(g, calls, "KeyError")
       ELSE Return(g, calls, Status("Found Lambda: {0}, Runtime: {1}, State: {2}",
                <<functions[k].FunctionName, functions[k].Runtime,
                  IF functions[k].State = <<>> THEN <<"N/A">> ELSE functions[k].State>>))

\* A Route53 check that searches a listing as the load-balancer check does.
_check_route53_record_lookup(name, properties, env) ==
    _check_load_balancer(name, properties, env)

_check_route53_record(name, properties, env) ==
    Return(Untouched(env.cm), <<>>,
        Status("Skipped: Route53 check is complex and not fully implemented. It requires Hosted Zone ID and record details.", <<>>))

\* ------------------------------------------------------------------ registry
Scripts == {"health.py", "sample-yaml-reading.py"}

\* HEALTH_CHECK_REGISTRY of sample-yaml-reading.py: component type -> check function.
RegistrySample ==
    [t \in {"RDSAuroraPostgres", "ManagementHost", "SQS", "Lambda", "Route53Record",
            "ApplicationLoadBalancer", "NetworkLoadBalancer", "Roles", "GlobalRoles",
            "ECSCluster", "KMS"} |->
        CASE t = "RDSAuroraPostgres" -> "_check_rds_aurora"
          [] t = "ManagementHost" -> "_check_management_host"
          [] t = "SQS" -> "_check_sqs_queue"
          [] t = "Lambda" -> "_check_lambda_function"
          [] t = "Route53Record" -> "_check_route53_record"
          [] t \in {"ApplicationLoadBalancer", "NetworkLoadBalancer"} -> "_check_load_balancer"
          [] t \in {"Roles", "GlobalRoles"} -> "_check_iam_role"
          [] t = "ECSCluster" -> "_check_ecs_cluster"
          [] t = "KMS" -> "_check_kms_key"]

\* HEALTH_CHECK_REGISTRY of health.py: SQS and Lambda are commented out, and
\* there is no Route53Record.
RegistryHealth ==
    [t \in {"RDSAuroraPostgres", "ManagementHost", "ApplicationLoadBalancer",
            "NetworkLoadBalancer", "Roles", "GlobalRoles", "ECSCluster", "KMS"} |->
        RegistrySample[t]]

HEALTH_CHECK_REGISTRY(script) ==
    IF script = "health.py" THEN RegistryHealth ELSE RegistrySample

\* A lookup that falls back to the load-balancer check for an unknown type.
RegistryGet_fallback(script, comp_type) ==
    IF comp_type \in DOMAIN HEALTH_CHECK_REGISTRY(script)
    THEN HEALTH_CHECK_REGISTRY(script)[comp_type]
    ELSE "_check_load_balancer"

\* HEALTH_CHECK_REGISTRY.get(comp_type): the function's name, "" for None.
RegistryGet(script, comp_type) ==
    IF comp_type \in DOMAIN HEALTH_CHECK_REGISTRY(script)
    THEN HEALTH_CHECK_REGISTRY(script)[comp_type]
    ELSE ""

\* A dispatch that leaves the check out once the manager holds a client.
CallCheck_onceOnly(fn, name, properties, env) ==
    IF \E sv \in Services : env.cm._clients[sv] # NoClient
    THEN Return(Untouched(env.cm), <<>>, Status("Skipped: already verified.", <<>>))
    ELSE CASE fn = "_check_rds_aurora" -> _check_rds_aurora(name, properties, env)
           [] fn = "_check_management_host" -> _check_management_host(name, properties, env)
           [] fn = "_check_sqs_queue" -> _check_sqs_queue(name, properties, env)
           [] fn = "_check_lambda_function" -> _check_lambda_function(name, properties, env)
           [] fn = "_check_route53_record" -> _check_route53_record(name, properties, env)
           [] fn = "_check_load_balancer" -> _check_load_balancer(name, properties, env)
           [] fn = "_check_iam_role" -> _check_iam_role(name, properties, env)
           [] fn = "_check_ecs_cluster" -> _check_ecs_cluster(name, properties, env)
           [] fn = "_check_kms_key" -> _check_kms_key(name, properties, env)

\* check_function(comp_name, comp_props)
CallCheck(fn, name, properties, env) ==
    CASE fn = "_check_rds_aurora" -> _check_rds_aurora(name, properties, env)
      [] fn = "_check_management_host" -> _check_management_host(name, properties, env)
      [] fn = "_check_sqs_queue" -> _check_sqs_queue(name, properties, env)
      [] fn = "_check_lambda_function" -> _check_lambda_function(name, properties, env)
      [] fn = "_check_route53_record" -> _check_route53_record(name, properties, env)
      [] fn = "_check_load_balancer" -> _check_load_balancer(name, properties, env)
      [] fn = "_check_iam_role" -> _check_iam_role(name, properties, env)
      [] fn = "_check_ecs_cluster" -> _check_ecs_cluster(name, properties, env)
      [] fn = "_check_kms_key" -> _check_kms_key(name, properties, env)

\* ------------------------------------------------------------------ the loop body
\* A component record of the YAML: type ("" when the key is missing), name (the
\* empty text when missing), properties (kind "absent" when the key is missing,
\* "null" when it is written without a value, "map" otherwise) and connectsTo.
PropsAbsent == [kind |-> "absent", key_alias |-> <<>>, custom_cluster_name |-> <<>>]
PropsNull == [kind |-> "null", key_alias |-> <<>>, custom_cluster_name |-> <<>>]
PropsMap(key_alias, custom_cluster_name) ==
    [kind |-> "map", key_alias |-> key_alias, custom_cluster_name |-> custom_cluster_name]

\* comp.get('properties', {}): the default only for a missing key.
GetProperties(comp) ==
    IF comp.properties.kind = "absent" THEN PropsMap(<<>>, <<>>) ELSE comp.properties

\* One call of ClientManager.get that returned: its arguments and the client.
GetReturned(service_name, region_override, client) ==
    [service |-> service_name, override |-> region_override, client |-> client]

\* A handler that catches the provider's ClientError only.
CaughtByLoop_narrow(exc) == exc = "ClientError"

\* The exceptions `except Exception` catches: every one a check can raise.
CaughtByLoop(exc) == exc \in {"Exception", "KeyError", "AttributeError"}

\* One line of status output, for the component at idx.  kind is "skipped"
\* (missing type or name), "status" (the check returned), "unexpected" (the check
\* raised) or "unsupported" (no check for the type).  parent is the name of the
\* component a connection line belongs to; the loop prints top-level lines only.
Line(idx, comp, kind, status) ==
    [idx |-> idx, type |-> comp.type, name |-> comp.name, kind |-> kind,
     status |-> status, parent |-> <<>>]

NotImplemented(comp_type) ==
    Status("Health check not implemented for type '{0}'.", <<<<comp_type>>>>)

\* A pass that leaves out a component with a missing type or name without a
\* line.
LoopBody_silentSkip(script, idx, comp, env) ==
    LET comp_type == comp.type
        comp_name == comp.name
        comp_props == GetProperties(comp)
        check_function == RegistryGet(script, comp_type)
        r == CallCheck(check_function, comp_name, comp_props, env)
        none == [lines |-> <<>>, cm |-> env.cm, created |-> <<>>, calls |-> <<>>,
                 invoked |-> <<>>, gets |-> <<>>, aborted |-> FALSE]
        ran == [none EXCEPT !.cm = r.cm, !.created = r.created, !.calls = r.calls,
                            !.invoked = <<check_function>>,
                            !.gets = IF r.client = NoClient THEN <<>>
                                     ELSE <<GetReturned(r.client.service, "", r.client)>>]
    IN IF comp_type = "" \/ comp_name = <<>>
       THEN none
       ELSE IF check_function = ""
       THEN [none EXCEPT !.lines =
                <<Line(idx, comp, "unsupported", NotImplemented(comp_type))>>]
       ELSE IF ~r.raised
       THEN [ran EXCEPT !.lines = <<Line(idx, comp, "status", r.status)>>]
       ELSE IF CaughtByLoop(r.exc)
       THEN [ran EXCEPT !.lines = <<Line(idx, comp, "unexpected", NoStatus)>>]
       ELSE [ran EXCEPT !.aborted = TRUE]

\* One pass of `for comp in components_to_check:` for the component at idx.
\* aborted: an exception left the loop.
LoopBody(script, idx, comp, env) ==
    LET comp_type == comp.type
        comp_name == comp.name
        comp_props == GetProperties(comp)
        check_function == RegistryGet(script, comp_type)
        r == CallCheck(check_function, comp_name, comp_props, env)
        none == [lines |-> <<>>, cm |-> env.cm, created |-> <<>>, calls |-> <<>>,
                 invoked |-> <<>>, gets |-> <<>>, aborted |-> FALSE]
        ran == [none EXCEPT !.cm = r.cm, !.created = r.created, !.calls = r.calls,
                            !.invoked = <<check_function>>,
                            !.gets = IF r.client = NoClient THEN <<>>
                                     ELSE <<GetReturned(r.client.service, "", r.client)>>]
    IN IF comp_type = "" \/ comp_name = <<>>
       THEN [none EXCEPT !.lines = <<Line(idx, comp, "skipped", NoStatus)>>]
       ELSE IF check_function = ""
       THEN [none EXCEPT !.lines =
                <<Line(idx, comp, "unsupported", NotImplemented(comp_type))>>]
       ELSE IF ~r.raised
       THEN [ran EXCEPT !.lines = <<Line(idx, comp, "status", r.status)>>]
       ELSE IF CaughtByLoop(r.exc)
       THEN [ran EXCEPT !.lines = <<Line(idx, comp, "unexpected", NoStatus)>>]
       ELSE [ran EXCEPT !.aborted = TRUE]

\* ------------------------------------------------------------------ inputs of a run
\* The component types of a deployment file: the registered ones, one that no
\* registry holds, and the missing type.
Types == DOMAIN RegistrySample \cup {"EKSCluster", ""}

Comp(t, n, p, c) == [type |-> t, name |-> n, properties |-> p, connectsTo |-> c]

\* connectsTo: one nested component.
Child == [type |-> "EKSCluster", name |-> <<"b">>]

\* The types a run's file declares without properties: one per check function
\* (the second type of the load-balancer and of the role check left out, and
\* Lambda, whose check lists and searches as the SQS check does), one that no
\* registry holds, and the missing type.
PlainTypes ==
    Types \ {"RDSAuroraPostgres", "ApplicationLoadBalancer", "NetworkLoadBalancer",
             "GlobalRoles", "Lambda"}

\* The components a run's file declares: one of every plain type under the
\* name "a", and the shapes the loop and the checks treat apart: a missing name,
\* KMS with a key_alias, KMS with `properties:` left empty, an RDS cluster with
\* an identifier in its properties, a load balancer that connects to a cluster,
\* a DNS record under another name with `properties:` left empty.
RunComponents ==
    {Comp(t, <<"a">>, PropsAbsent, <<>>) : t \in PlainTypes}
    \cup {Comp("KMS", <<>>, PropsAbsent, <<>>),
          Comp("KMS", <<"a">>, PropsMap(<<"b">>, <<>>), <<>>),
          Comp("KMS", <<"a">>, PropsNull, <<>>),
          Comp("RDSAuroraPostgres", <<"a">>, PropsMap(<<>>, <<"b">>), <<>>),
          Comp("ApplicationLoadBalancer", <<"a">>, PropsAbsent, <<Child>>),
          Comp("Route53Record", <<"b">>, PropsNull, <<>>)}

SeqsUpTo(S, n) == UNION {[1..k -> S] : k \in 0..n}

\* The real names the provider lists.
ResNames == {<<"a">>, <<"b">>, <<"a", "b">>, <<"b", "a">>}

\* The real names listed in a run of the loop: one that contains the declared
\* name "a" and one that does not.
RunResNames == {<<"b", "a">>, <<"b">>}

\* A queue's URL, https://sqs.<region>.amazonaws.com/<account>/<name>, cut to one
\* character of the host and the separator before the queue's name.
QueueUrl(queue_name) == <<"a", "/">> \o queue_name

\* The elements each listing call can return, for the real names in names.
Elements(fn, names) ==
    CASE fn = "_check_rds_aurora" ->
            {[DBClusterIdentifier |-> n, Status |-> <<"available">>] : n \in names}
      [] fn = "_check_load_balancer" ->
            {[LoadBalancerName |-> n, State |-> <<"active">>] : n \in names}
      [] fn = "_check_iam_role" -> {[RoleName |-> n] : n \in names}
      [] fn = "_check_lambda_function" ->
            {[FunctionName |-> n, Runtime |-> rt, State |-> <<"Active">>] :
                n \in names, rt \in {<<>>, <<"python3.12">>}}
            \cup {[FunctionName |-> <<"a">>, Runtime |-> <<"python3.12">>, State |-> <<>>]}
      [] fn = "_check_sqs_queue" -> {QueueUrl(n) : n \in names}

\* The ways a call fails, or answers without the key read.
Failures(body) ==
    {NoKey(body), ClientError(body, "AccessDenied"), OtherException(body)}

EcsBody(failures, clusters) == [failures |-> failures, clusters |-> clusters]
KmsBody(KeyId, KeyState) == [KeyId |-> KeyId, KeyState |-> KeyState]

ListingChecks ==
    {"_check_rds_aurora", "_check_load_balancer", "_check_iam_role",
     "_check_lambda_function", "_check_sqs_queue"}

\* The provider's possible answers to the first call of a check function, a
\* listing holding n elements at most, with real names of names.
ResponsesUpTo(fn, names, n) ==
    CASE fn \in ListingChecks ->
            {Ok(l) : l \in SeqsUpTo(Elements(fn, names), n)} \cup Failures(<<>>)
      [] fn = "_check_management_host" ->
            {Ok(<<>>), Ok(<<[Instances |-> <<>>]>>),
             Ok(<<[Instances |-> <<[InstanceId |-> <<"i-1">>, State |-> <<"running">>]>>]>>)}
            \cup Failures(<<>>)
      [] fn = "_check_ecs_cluster" ->
            {Ok(EcsBody(<<>>, <<>>)),
             Ok(EcsBody(<<[reason |-> <<"MISSING">>]>>, <<>>)),
             Ok(EcsBody(<<[reason |-> <<"ACCESS_DENIED">>]>>, <<>>)),
             Ok(EcsBody(<<>>, <<[clusterName |-> <<"a">>, status |-> <<"ACTIVE">>,
                                 activeServicesCount |-> <<"2">>]>>))}
            \cup Failures(EcsBody(<<>>, <<>>))
      [] fn = "_check_kms_key" ->
            {Ok(KmsBody(<<"abcd-1234">>, <<"Enabled">>)),
             ClientError(KmsBody(<<>>, <<>>), "NotFoundException")}
            \cup Failures(KmsBody(<<>>, <<>>))
      [] OTHER -> {NoResp}

\* In a run of the loop a listing holds one element at most, and every
\* response holds the key the check reads.
Responses(fn) == {r \in ResponsesUpTo(fn, RunResNames, 1) : r.tag # "nokey"}

\* ... and to its second call (describe_instance_status).
Responses2(fn) ==
    IF fn = "_check_management_host"
    THEN {Ok(<<>>), Ok(<<[InstanceStatus |-> <<"ok">>, SystemStatus |-> <<"ok">>]>>)}
         \cup Failures(<<>>)
    ELSE {NoResp}

\* ... in a run of the loop.
RunResponses2(fn) == {r \in Responses2(fn) : r.tag # "nokey"}

\* ... after the first call was answered resp: describe_instance_status is
\* called only for an instance that describe_instances returned.
SecondResponses(fn, resp) ==
    IF /\ fn = "_check_management_host"
       /\ resp.tag = "ok"
       /\ resp.body # <<>>
       /\ resp.body[1].Instances # <<>>
    THEN RunResponses2(fn)
    ELSE {NoResp}

\* ------------------------------------------------------------------ new.py: text helpers
\* str.lower on the characters the model uses.
LowerChar(c) == IF c = "A" THEN "a" ELSE IF c = "S" THEN "s" ELSE c
Lower(s) == [k \in 1..Len(s) |-> LowerChar(s[k])]

StartsWith(s, prefix) ==
    Len(prefix) <= Len(s) /\ SubSeq(s, 1, Len(prefix)) = prefix

EndsWith(s, suffix) ==
    Len(suffix) <= Len(s) /\ SubSeq(s, Len(s) - Len(suffix) + 1, Len(s)) = suffix

\* str.split(sep) for a separator of one character: the parts, in order.
RECURSIVE Split(_, _)
Split(s, sep) ==
    IF \A k \in 1..Len(s) : s[k] # sep THEN <<s>>
    ELSE LET k == CHOOSE j \in 1..Len(s) :
                    s[j] = sep /\ \A h \in 1..(j - 1) : s[h] # sep
         IN <<SubSeq(s, 1, k - 1)>> \o Split(SubSeq(s, k + 1, Len(s)), sep)

Last(xs) == xs[Len(xs)]

ArnPrefix == <<"a", "r", "n", ":">>

\* arn:partition:service:region:account:resource
Arn(service, region, resource) ==
    ArnPrefix \o <<"p", ":">> \o service \o <<":">> \o region \o <<":", "1", ":">> \o resource

_get_region_from_arn(arn) ==
    IF arn = <<>> \/ ~StartsWith(arn, ArnPrefix) THEN <<>>
    ELSE LET parts == Split(arn, ":")
         IN IF Len(parts) > 4 THEN parts[4] ELSE <<>>

\* A Resource Explorer item carries no ResourceName/Title/Name/DisplayName the
\* model does not write as ResourceName, and its Properties are a list: the name
\* is ResourceName when set, else the last segment of the ARN.
_get_resource_name(resource) ==
    IF resource.ResourceName # <<>> THEN resource.ResourceName
    ELSE IF resource.Arn # <<>>
    THEN LET seg == Last(Split(resource.Arn, "/"))
         IN IF seg # <<>> /\ seg # resource.Arn THEN seg
            ELSE Last(Split(resource.Arn, ":"))
    ELSE <<>>

\* ------------------------------------------------------------------ new.py: the resources table
\* s[-keep:]: the last keep characters of s, and the whole of s when keep is 0,
\* for -0 is 0.
LastChars(s, keep) ==
    IF keep = 0 \/ keep >= Len(s) THEN s ELSE SubSeq(s, Len(s) - keep + 1, Len(s))

\* _shorten(text, max_len) for a str and max_len >= 3.
_shorten(text, max_len) ==
    IF text = <<>> THEN <<>>
    ELSE IF Len(text) <= max_len THEN text
    ELSE LET keep == (max_len - 3) \div 2
         IN SubSeq(text, 1, keep) \o <<".", ".", ".">> \o LastChars(text, keep)

\* str.ljust(width)
Ljust(text, width) ==
    IF Len(text) >= width THEN text ELSE text \o [k \in 1..(width - Len(text)) |-> " "]

headers ==
    << <<"S", "e", "r", "v", "i", "c", "e">>,
       <<"R", "e", "s", "o", "u", "r", "c", "e", "T", "y", "p", "e">>,
       <<"N", "a", "m", "e">>,
       <<"R", "e", "g", "i", "o", "n">>,
       <<"A", "R", "N">> >>

IsArnColumn(c) == headers[c] = <<"A", "R", "N">>

\* The widest the ARN column gets.
ARN_WIDTH_CAP == 120

\* The row of a resource dict, as the search keeps it: Service, ResourceType,
\* Name (from the ARN when the dict has none), Region, ARN.
TableRow(r) ==
    <<r.Service, r.ResourceType,
      IF r.Name # <<>> THEN r.Name
      ELSE _get_resource_name([ResourceName |-> <<>>, Arn |-> r.ARN]),
      r.Region, r.ARN>>

\* _print_resources_table(resources): the column widths, and the cells of the
\* header line and of every row as printed.
_print_resources_table(resources) ==
    LET rows == [k \in 1..Len(resources) |-> TableRow(resources[k])]
        widest(c) ==
            LET lens == {Len(headers[c])} \cup {Len(rows[k][c]) : k \in 1..Len(rows)}
            IN CHOOSE l \in lens : \A m \in lens : m <= l
        col_widths == [c \in 1..Len(headers) |->
                          IF IsArnColumn(c) /\ widest(c) > ARN_WIDTH_CAP
                          THEN ARN_WIDTH_CAP ELSE widest(c)]
        out_cells(row) ==
            [c \in 1..Len(headers) |->
                Ljust(IF IsArnColumn(c) THEN _shorten(row[c], col_widths[c]) ELSE row[c],
                      col_widths[c])]
    IN [col_widths |-> col_widths,
        header |-> [c \in 1..Len(headers) |-> Ljust(headers[c], col_widths[c])],
        lines |-> [k \in 1..Len(rows) |-> out_cells(rows[k])],
        total |-> Len(rows)]

\* ------------------------------------------------------------------ new.py: the search
\* The resource the search keeps of a raw item.
Kept(resource, resource_region) ==
    [ResourceType |-> resource.ResourceType, ARN |-> resource.Arn,
     Region |-> resource_region, Service |-> resource.Service,
     Name |-> _get_resource_name(resource)]

ResourceRegion(resource) ==
    IF resource.Region # <<>> THEN resource.Region ELSE _get_region_from_arn(resource.Arn)

\* resource_type.split(':')[0] if ':' in resource_type else resource_type
ServiceOf(resource_type) ==
    IF \E k \in 1..Len(resource_type) : resource_type[k] = ":"
    THEN Split(resource_type, ":")[1] ELSE resource_type

RECURSIVE Flatten(_)
Flatten(pages) == IF pages = <<>> THEN <<>> ELSE Head(pages) \o Flatten(Tail(pages))

RECURSIVE KeepInRegion(_, _)
KeepInRegion(items, region) ==
    IF items = <<>> THEN <<>>
    ELSE LET rest == KeepInRegion(Tail(items), region)
             rr == ResourceRegion(Head(items))
         IN IF rr # region THEN rest ELSE <<Kept(Head(items), rr)>> \o rest

\* A result whose services are counted before the region is looked at.
SearchResult_countBeforeFilter(region, pages) ==
    LET resources == KeepInRegion(Flatten(pages), region)
        items == Flatten(pages)
        names == {ServiceOf(items[k].ResourceType) : k \in 1..Len(items)}
        services == [sv \in names |->
                        Cardinality({k \in 1..Len(items) :
                                        ServiceOf(items[k].ResourceType) = sv})]
    IN [none |-> FALSE, services |-> services,
        total_services |-> Cardinality(DOMAIN services),
        total_resources |-> Len(resources), resources |-> resources]

\* The result dict the search returns after its pages.
SearchResult(region, pages) ==
    LET resources == KeepInRegion(Flatten(pages), region)
        names == {ServiceOf(resources[k].ResourceType) : k \in 1..Len(resources)}
        services == [sv \in names |->
                        Cardinality({k \in 1..Len(resources) :
                                        ServiceOf(resources[k].ResourceType) = sv})]
    IN [none |-> FALSE, services |-> services,
        total_services |-> Cardinality(DOMAIN services),
        total_resources |-> Len(resources), resources |-> resources]

NoResult ==
    [none |-> TRUE, services |-> <<>>, total_services |-> 0, total_resources |-> 0,
     resources |-> <<>>]

\* get_all_services_using_resource_explorer(region): resp is what the paginated
\* search answers, its body the pages.  none: the function returned None.
get_all_services_using_resource_explorer(region, resp) ==
    IF resp.tag # "ok" THEN NoResult
    ELSE SearchResult(region, resp.body)

\* ------------------------------------------------------------------ new.py: the YAML document
\* yaml.safe_load's value: a str, None, a list, or a dict kept in file order.
Str(v) == [t |-> "str", v |-> v]
Null == [t |-> "null"]
List(items) == [t |-> "list", items |-> items]
Dict(items) == [t |-> "dict", items |-> items]
KV(key, val) == [key |-> key, val |-> val]

HasKey(d, key) == \E k \in 1..Len(d.items) : d.items[k].key = key

\* d.get(key, default) on a dict d.
DictGet(d, key, default) ==
    IF HasKey(d, key)
    THEN d.items[CHOOSE k \in 1..Len(d.items) : d.items[k].key = key].val
    ELSE default

\* Python's truth of a loaded value.
Truthy(node) ==
    CASE node.t = "str" -> node.v # <<>>
      [] node.t = "null" -> FALSE
      [] OTHER -> node.items # <<>>

\* The text of a value read as a name or a type: None and '' both read as ''.
TextOf(node) == IF node.t = "str" THEN node.v ELSE <<>>

\* The comp dict extract_location_and_services_from_yaml builds of one entry.
ExtractedComp(c) ==
    [type |-> DictGet(c, "type", Null), name |-> DictGet(c, "name", Null),
     properties |-> DictGet(c, "properties", Dict(<<>>))]

RECURSIVE ExtractComps(_)
ExtractComps(comps) ==
    IF comps = <<>> THEN <<>>
    ELSE IF Head(comps).t # "dict" THEN ExtractComps(Tail(comps))
    ELSE <<ExtractedComp(Head(comps))>> \o ExtractComps(Tail(comps))

\* extract_location_and_services_from_yaml, after the file is parsed: the region
\* (Null for None) and the components.  Each try block gives its default when
\* .get is called on a value that is not a dict.
extract_location_and_services_from_yaml(parsed) ==
    LET spec == DictGet(parsed, "spec", Dict(<<>>))
        env == DictGet(spec, "environment", Dict(<<>>))
        region == IF parsed.t # "dict" \/ spec.t # "dict" \/ env.t # "dict" THEN Null
                  ELSE DictGet(env, "awsRegion", Null)
        fromSpec == DictGet(spec, "components", Null)
        fromRoot == DictGet(parsed, "components", Null)
        comps == IF Truthy(fromSpec) THEN fromSpec
                 ELSE IF Truthy(fromRoot) THEN fromRoot ELSE List(<<>>)
        components == IF parsed.t # "dict" \/ spec.t # "dict" \/ comps.t # "list" THEN <<>>
                      ELSE ExtractComps(comps.items)
    IN [region |-> region, components |-> components]

\* ------------------------------------------------------------------ new.py: the comparisons
\* A match that compares the texts as they are written, letter case included.
Found_caseSensitive(comp, r) ==
    LET cname == TextOf(comp.name)
        ctype == TextOf(comp.type)
        rname == r.Name
        rarn == r.ARN
        rtype == r.ResourceType
    IN \/ cname # <<>> /\ rname # <<>> /\ cname = rname
       \/ cname # <<>> /\ rarn # <<>> /\ Contains(cname, rarn)
       \/ ctype # <<>> /\ Contains(ctype, rtype)

\* Whether a component matches one inventory resource.
Found(comp, r) ==
    LET cname == Lower(TextOf(comp.name))
        ctype == Lower(TextOf(comp.type))
        rname == Lower(r.Name)
        rarn == r.ARN
        rtype == Lower(r.ResourceType)
    IN \/ cname # <<>> /\ rname # <<>> /\ cname = rname
       \/ cname # <<>> /\ rarn # <<>> /\ Contains(cname, Lower(rarn))
       \/ ctype # <<>> /\ Contains(ctype, rtype)

RECURSIVE Matches(_, _)
Matches(comp, existing_resources) ==
    IF existing_resources = <<>> THEN <<>>
    ELSE (IF Found(comp, Head(existing_resources)) THEN <<Head(existing_resources)>>
          ELSE <<>>) \o Matches(comp, Tail(existing_resources))

\* An entry that reports a component as existing whenever the inventory is not empty.
ComponentEntry_anyInventory(comp, existing_resources) ==
    [component |-> comp, exists |-> Len(existing_resources) > 0,
     matches |-> Matches(comp, existing_resources)]

ComponentEntry(comp, existing_resources) ==
    LET matches == Matches(comp, existing_resources)
    IN [component |-> comp, exists |-> Len(matches) > 0, matches |-> matches]

\* A report built newest first.
ComponentsReport_reversed(components, existing_resources) ==
    [k \in 1..Len(components) |->
        ComponentEntry(components[Len(components) + 1 - k], existing_resources)]

\* matches_report, one entry appended per component.
ComponentsReport(components, existing_resources) ==
    [k \in 1..Len(components) |-> ComponentEntry(components[k], existing_resources)]

\* compare_components_with_inventory(yaml_path, region) with existing_resources
\* left None: resp is what the search it runs answers.  searched: the search's
\* outcome, "ok" or "failed".
compare_components_with_inventory(parsed, region, resp) ==
    LET x == extract_location_and_services_from_yaml(parsed)
        use == IF region = Null THEN x.region ELSE region
        result == get_all_services_using_resource_explorer(TextOf(use), resp)
        existing_resources == IF result.none THEN <<>> ELSE result.resources
    IN IF use = Null
       THEN [raised |-> TRUE, exc |-> "ValueError", searched |-> "no",
             inventory |-> <<>>, components |-> x.components, report |-> <<>>]
       ELSE [raised |-> FALSE, exc |-> "",
             searched |-> IF result.none THEN "failed" ELSE "ok",
             inventory |-> existing_resources,
             components |-> x.components,
             report |-> ComponentsReport(x.components, existing_resources)]

\* k.lower() == 'arn'
IsArnKey(key) == key \in {"arn", "Arn", "aRn", "arN", "ARn", "ArN", "aRN", "ARN"}

IsArnText(node) == node.t = "str" /\ StartsWith(node.v, ArnPrefix)

\* list(dict.fromkeys(arns)): the first occurrence of each, in order.
RECURSIVE Dedupe(_)
Dedupe(xs) ==
    IF xs = <<>> THEN <<>>
    ELSE LET init == Dedupe(SubSeq(xs, 1, Len(xs) - 1))
         IN IF \E k \in 1..Len(init) : init[k] = Last(xs) THEN init
            ELSE Append(init, Last(xs))

RECURSIVE _extract_arns_from_yaml_data(_)
RECURSIVE ArnsOfItems(_)
RECURSIVE ArnsOfList(_)

\* The loop over data.items() of a dict.
ArnsOfItems(items) ==
    IF items = <<>> THEN <<>>
    ELSE LET k == Head(items).key
             v == Head(items).val
         IN (IF IsArnText(v) THEN <<v.v>> ELSE _extract_arns_from_yaml_data(v))
            \o (IF IsArnKey(k) /\ IsArnText(v) THEN <<v.v>> ELSE <<>>)
            \o ArnsOfItems(Tail(items))

\* The loop over the items of a list.
ArnsOfList(items) ==
    IF items = <<>> THEN <<>>
    ELSE _extract_arns_from_yaml_data(Head(items)) \o ArnsOfList(Tail(items))

_extract_arns_from_yaml_data(data) ==
    Dedupe(CASE data.t = "dict" -> ArnsOfItems(data.items)
             [] data.t = "list" -> ArnsOfList(data.items)
             [] data.t = "str" -> IF StartsWith(data.v, ArnPrefix) THEN <<data.v>> ELSE <<>>
             [] OTHER -> <<>>)

\* existing_arn_map: the resources with an ARN, keyed by it.  A dict keeps a
\* key at its first place and the value written last.
ArnKeys(existing_resources) ==
    Dedupe([k \in 1..Len(
                SelectSeq(existing_resources, LAMBDA r : r.ARN # <<>>)) |->
            SelectSeq(existing_resources, LAMBDA r : r.ARN # <<>>)[k].ARN])

ArnValue(existing_resources, arn) ==
    existing_resources[CHOOSE k \in 1..Len(existing_resources) :
        /\ existing_resources[k].ARN = arn
        /\ \A j \in (k + 1)..Len(existing_resources) : existing_resources[j].ARN # arn]

\* An entry whose suffix match sets exists and leaves matched at None.
ArnEntry_unattached(arn, existing_resources) ==
    LET keys == ArnKeys(existing_resources)
        hits == {k \in 1..Len(keys) : EndsWith(arn, keys[k]) \/ EndsWith(keys[k], arn)}
    IN [requested_arn |-> arn, exists |-> hits # {},
        matched_resource |->
            IF \E k \in 1..Len(keys) : keys[k] = arn
            THEN ArnValue(existing_resources, arn) ELSE Null]

\* An entry that looks for a key that is a suffix of the ARN, never for a key
\* the ARN is a suffix of.
ArnEntry_suffixOneWay(arn, existing_resources) ==
    LET keys == ArnKeys(existing_resources)
        hits == {k \in 1..Len(keys) : EndsWith(arn, keys[k])}
        first == CHOOSE k \in hits : \A j \in hits : k <= j
    IN IF \E k \in 1..Len(keys) : keys[k] = arn
       THEN [requested_arn |-> arn, exists |-> TRUE,
             matched_resource |-> ArnValue(existing_resources, arn)]
       ELSE IF hits # {}
       THEN [requested_arn |-> arn, exists |-> TRUE,
             matched_resource |-> ArnValue(existing_resources, keys[first])]
       ELSE [requested_arn |-> arn, exists |-> FALSE, matched_resource |-> Null]

\* One entry of compare_arns_with_inventory's report: the exact match, else the
\* first key, in the map's order, that is a suffix of the ARN or has it as a suffix.
ArnEntry(arn, existing_resources) ==
    LET keys == ArnKeys(existing_resources)
        hits == {k \in 1..Len(keys) : EndsWith(arn, keys[k]) \/ EndsWith(keys[k], arn)}
        first == CHOOSE k \in hits : \A j \in hits : k <= j
    IN IF \E k \in 1..Len(keys) : keys[k] = arn
       THEN [requested_arn |-> arn, exists |-> TRUE,
             matched_resource |-> ArnValue(existing_resources, arn)]
       ELSE IF hits # {}
       THEN [requested_arn |-> arn, exists |-> TRUE,
             matched_resource |-> ArnValue(existing_resources, keys[first])]
       ELSE [requested_arn |-> arn, exists |-> FALSE, matched_resource |-> Null]

\* compare_arns_with_inventory(yaml_path, region) with existing_resources left None.
compare_arns_with_inventory(parsed, region, resp) ==
    LET requested_arns == _extract_arns_from_yaml_data(parsed)
        result == get_all_services_using_resource_explorer(region, resp)
        existing_resources == IF result.none THEN <<>> ELSE result.resources
    IN [searched |-> IF result.none THEN "failed" ELSE "ok",
        inventory |-> existing_resources,
        report |-> [k \in 1..Len(requested_arns) |->
                        ArnEntry(requested_arns[k], existing_resources)]]

\* ------------------------------------------------------------------ new.py: inputs
\* The region the inventory is asked for.
InvRegion == <<"r">>

Arn1 == Arn(<<"s">>, InvRegion, <<"a">>)
Arn2 == Arn(<<"s">>, InvRegion, <<"x", "/", "A">>)
Arn3 == Arn(<<"s">>, <<"q">>, <<"a">>)

\* The entries of a components list: dicts with some of type, name, properties
\* and connectsTo (the last with neither type nor name), and one entry that is
\* not a dict.
NewEntries ==
    {Dict(<<KV("type", Str(<<"s">>)), KV("name", Str(<<"a">>))>>),
     Dict(<<KV("name", Str(<<"A">>))>>),
     Dict(<<KV("type", Str(<<"S">>)), KV("name", Null)>>),
     Str(<<"x">>),
     Dict(<<KV("type", Str(<<"n">>)), KV("name", Str(<<"c">>)),
            KV("properties", Dict(<<KV("arn", Str(Arn1)), KV("role", Str(Arn2 \o <<"z">>))>>))>>),
     Dict(<<KV("connectsTo", List(<<Dict(<<KV("type", Str(<<"s">>)),
                                          KV("name", Str(<<"b">>))>>)>>))>>)}

\* The layouts of a deployment file: components at the root, under spec (with
\* the region), or at the root beside a spec that is null or an empty mapping.
Layouts == {"root", "spec", "root+null spec", "root+empty spec"}

Doc(layout, comps) ==
    CASE layout = "root" -> Dict(<<KV("components", List(comps))>>)
      [] layout = "spec" ->
            Dict(<<KV("spec", Dict(<<KV("environment",
                                        Dict(<<KV("awsRegion", Str(InvRegion))>>)),
                                     KV("components", List(comps))>>))>>)
      [] layout = "root+null spec" ->
            Dict(<<KV("spec", Null), KV("components", List(comps))>>)
      [] layout = "root+empty spec" ->
            Dict(<<KV("spec", Dict(<<>>)), KV("components", List(comps))>>)

\* Every list of entries at the root, and the other layouts around one entry at most.
Docs ==
    {Doc("root", comps) : comps \in SeqsUpTo(NewEntries, MaxComps)}
    \cup {Doc(layout, comps) : layout \in Layouts, comps \in SeqsUpTo(NewEntries, 1)}

\* The items a search page can hold: in the region by its Region field, in the
\* region by its ARN alone, in another region, one without an ARN, one whose
\* ARN is partial (the end of a full one), and one whose ARN ends with a full one.
RawResources ==
    {[Arn |-> Arn1, Region |-> InvRegion, ResourceType |-> <<"s", ":", "b">>,
      Service |-> <<"s">>, ResourceName |-> <<>>],
     [Arn |-> Arn2, Region |-> <<>>, ResourceType |-> <<"s", ":", "b">>,
      Service |-> <<"s">>, ResourceName |-> <<>>],
     [Arn |-> Arn3, Region |-> <<"q">>, ResourceType |-> <<"s", ":", "b">>,
      Service |-> <<"s">>, ResourceName |-> <<>>],
     [Arn |-> <<>>, Region |-> InvRegion, ResourceType |-> <<"u">>,
      Service |-> <<>>, ResourceName |-> <<"c">>],
     [Arn |-> <<"A", "z">>, Region |-> InvRegion, ResourceType |-> <<"s", ":", "b">>,
      Service |-> <<"s">>, ResourceName |-> <<>>],
     [Arn |-> <<"x">> \o Arn1, Region |-> InvRegion, ResourceType |-> <<"t">>,
      Service |-> <<"t">>, ResourceName |-> <<>>]}

\* The pages a listing can arrive in: one page, or split after its first item.
Pages(l) ==
    {<<l>>} \cup (IF Len(l) >= 2 THEN {<<SubSeq(l, 1, 1), SubSeq(l, 2, Len(l))>>} ELSE {})

\* The listings of a search: every item once at most.
Listings ==
    {l \in SeqsUpTo(RawResources, MaxList) :
        \A j, k \in 1..Len(l) : j # k => l[j] # l[k]}

\* What the paginated search answers: its pages, ResourceNotFoundException, or
\* any other exception.
SearchResponses ==
    UNION {{Ok(ps) : ps \in Pages(l)} : l \in Listings}
    \cup {ClientError(<<>>, "ResourceNotFoundException"), OtherException(<<>>)}

\* ------------------------------------------------------------------ the deployment-status wrappers
WrapperScripts == {"main.py", "status-2.py"}

CORRELATION_ID == <<"REPLACE_ME_CORRELATION_ID">>
DEPLOYMENT_YAML_PATH == <<"deployment_apply.yaml">>

\* subprocess.run(command, stdout=PIPE, stderr=PIPE, text=True, check=False): the
\* process ran and run returned its CompletedProcess; ...
Completed(returncode, stdout, stderr) ==
    [tag |-> "completed", returncode |-> returncode, stdout |-> stdout, stderr |-> stderr]

\* ... or no process was started and run raised exc; ...
LaunchFailed(exc) == [tag |-> exc, returncode |-> 0, stdout |-> <<>>, stderr |-> <<>>]

\* ... or the process ran and ended with returncode, and run raised while it
\* decoded the captured output as text.
DecodeFailed(returncode) ==
    [tag |-> "UnicodeDecodeError", returncode |-> returncode, stdout |-> <<>>,
     stderr |-> <<>>]

\* What a wrapper hands back: the code it returns, whether it called
\* subprocess.run, what it printed and what it wrote to stderr.
Returned(code, launched, printed, errs) ==
    [code |-> code, launched |-> launched, printed |-> printed, errs |-> errs]

\* The prints of the try block after run returned.
PrintResult(result) ==
    (IF result.stdout # <<>> THEN <<"Output:", result.stdout>> ELSE <<>>)
    \o (IF result.stderr # <<>> THEN <<"Error output:">> ELSE <<>>)

\* main.py: execute_eac_deployment_status(correlation_id); run is what
\* subprocess.run does.
execute_eac_deployment_status(correlation_id, run) ==
    LET head == <<"Executing command: {0}", "Correlation ID: {0}">>
    IN IF run.tag = "completed"
       THEN Returned(run.returncode, TRUE, head \o PrintResult(run),
                     IF run.stderr # <<>> THEN <<run.stderr>> ELSE <<>>)
       ELSE IF run.tag = "FileNotFoundError"
       THEN Returned(1, TRUE, head,
                     <<"Error: EAC CLI not found at '{0}'",
                       "Please verify the EAC_CLI_PATH variable is set correctly.">>)
       ELSE Returned(1, TRUE, head, <<"Error executing command: {0}">>)

\* status-2.py: execute_eac_deployment_status_with_yaml(yaml_path); env holds the
\* answers of os.path.isfile for the CLI and for the YAML, and of subprocess.run.
execute_eac_deployment_status_with_yaml(yaml_path, env) ==
    LET head == <<"Executing command: {0}", "YAML file: {0}">>
        run == env.run
    IN IF ~env.cli_isfile
       THEN Returned(1, FALSE, head,
                     <<"Error: EAC CLI not found at '{0}'",
                       "Please verify the EAC_CLI_PATH variable is set correctly.">>)
       ELSE IF ~env.yaml_isfile
       THEN Returned(1, FALSE, head, <<"Error: deployment YAML not found at '{0}'">>)
       ELSE IF run.tag = "completed"
       THEN Returned(run.returncode, TRUE, head \o PrintResult(run),
                     IF run.stderr # <<>> THEN <<run.stderr>> ELSE <<>>)
       ELSE Returned(1, TRUE, head, <<"Error executing command: {0}">>)

\* sys.exit(exit_code): the status the parent sees is the code's low eight bits.
sys_exit(code) == code % 256

\* The codes subprocess.run reports: the process's exit code, or minus the
\* signal's number for a process a signal ended (SIGKILL here).
ReturnCodes == (0..MaxReturnCode) \cup {-9}

Outputs == {<<>>, <<"o">>}

RunOutcomes ==
    {Completed(c, so, se) : c \in ReturnCodes, so \in Outputs, se \in Outputs}
    \cup {LaunchFailed("FileNotFoundError"), LaunchFailed("PermissionError")}
    \cup {DecodeFailed(c) : c \in 0..MaxReturnCode}

NoWrapper ==
    [cli_isfile |-> FALSE, yaml_isfile |-> FALSE, run |-> LaunchFailed(""),
     launched |-> FALSE, returned |-> 0]

\* ------------------------------------------------------------------ state
VARIABLES
    script,          \* which program runs
    pc,              \* where it is: "load", "loop", "gets", "parsed", "compare", "call", "done",
                     \* "start", "returned" (a wrapper has its exit code in hand),
                     \* "crashed" (an exception ended the script before the loop),
                     \* "aborted" (an exception left the loop or a comparison)
    file,            \* the deployment file the loop's script is given
    exit_code,       \* the exit status of the loop's script, -1 while it runs
    errors,          \* the error messages the loop's script printed while loading
    components,      \* components_to_check, as loaded
    i,               \* the index of the component the loop is at
    out,             \* the status lines printed so far
    client_manager,  \* the ClientManager: its _clients and region
    created,         \* every client boto3.client has built, in order, with the index
                     \* of the component whose check built it (0 outside the loop)
    gets,            \* every ClientManager.get that returned: arguments and client
    calls,           \* every provider call made: the component's index, api, argument
                     \* and the provider's answer (of a search: the resources kept)
    invoked,         \* every check function called: the component's index, its name
    doc,             \* new.py: the parsed deployment file
    searched,        \* new.py: "no", or how the inventory search ended: "ok", "failed"
    report,          \* new.py: compare_components_with_inventory's report
    arn_report,      \* new.py: compare_arns_with_inventory's report
    checked,         \* one check function called on its own: its arguments, the
                     \* provider's answers and what it handed back
    wrapper,         \* main.py, status-2.py: what os.path.isfile and subprocess.run
                     \* answer, whether subprocess.run was called, the code returned
    table,           \* new.py: a call of _shorten or _print_resources_table, its
                     \* arguments and, once it returned, what it gave
    search           \* new.py: a call of get_all_services_using_resource_explorer,
                     \* its region, the search's answer and, once it returned, its result

vars == <<script, pc, file, exit_code, errors, components, i, out, client_manager,
          created, gets, calls, invoked, doc, searched, report, arn_report, checked,
          wrapper, table, search>>

fnVars == <<table, search>>

loopVars == <<components, i, out, client_manager, created, gets, calls, invoked>>
newVars == <<doc, searched, report, arn_report>>
loadVars == <<file, exit_code, errors>>

Region == "us-east-1"

Tagged(idx, xs) == [k \in 1..Len(xs) |-> [idx |-> idx, what |-> xs[k]]]

\* The provider calls of one check with what the provider answered: the first
\* call got resp, the second resp2.
Answered(cs, resp, resp2) ==
    [k \in 1..Len(cs) |->
        [api |-> cs[k].api, arg |-> cs[k].arg, answer |-> IF k = 1 THEN resp ELSE resp2]]

\* A deployment file as the loop's scripts meet it: missing, not parseable,
\* empty (yaml.safe_load gives None), or a mapping with its awsRegion ("" when
\* the file names none) and its components, kept at the root of the document
\* (layout "root") or under its spec key (layout "spec").
File(kind, region, layout, comps) ==
    [kind |-> kind, region |-> region, layout |-> layout, components |-> comps]

NoFile == File("none", "", "root", <<>>)

\* The files of a run; a file that names no region, or keeps its components
\* under spec, declares one component at most.
Files ==
    {File(k, "", "root", <<>>) : k \in {"missing", "unparseable", "empty"}}
    \cup {File("ok", Region, "root", cs) : cs \in SeqsUpTo(RunComponents, MaxComps)}
    \cup {File("ok", "", "root", cs) : cs \in SeqsUpTo(RunComponents, 1)}
    \cup {File("ok", Region, "spec", cs) : cs \in SeqsUpTo(RunComponents, 1)}

\* config.get('components', []): the list at the root of the document.
RootComponents(f) == IF f.layout = "root" THEN f.components ELSE <<>>

\* What a script does with its file before the loop.  exit: the exit status it
\* ends with there, -1 when it goes on; crashed: an exception nobody catches
\* ended it; built: ClientManager(region=region) was reached.
Loaded(exit, crashed, errs, built, comps) ==
    [exit |-> exit, crashed |-> crashed, errors |-> errs, built |-> built,
     components |-> comps]

\* health.py: get_deployment_config, then __main__ up to the loop.
LoadHealth(f) ==
    CASE f.kind = "missing" ->
            Loaded(1, FALSE, <<"Error: The file {0} was not found.">>, FALSE, <<>>)
      [] f.kind = "unparseable" ->
            Loaded(1, FALSE, <<"Error parsing YAML file: {0}">>, FALSE, <<>>)
      [] f.kind = "empty" -> Loaded(1, FALSE, <<>>, FALSE, <<>>)
      [] OTHER ->
            Loaded(IF RootComponents(f) = <<>> THEN 0 ELSE -1, FALSE, <<>>, TRUE,
                   RootComponents(f))

\* sample-yaml-reading.py: run_health_checks up to the loop.  Every `return`
\* ends the script with status 0; config.get on None raises AttributeError.
LoadSample(f) ==
    CASE f.kind = "missing" ->
            Loaded(0, FALSE, <<"Error: The file {0} was not found.">>, FALSE, <<>>)
      [] f.kind = "unparseable" ->
            Loaded(0, FALSE, <<"Error parsing YAML file: {0}">>, FALSE, <<>>)
      [] f.kind = "empty" -> Loaded(1, TRUE, <<>>, FALSE, <<>>)
      [] f.region = "" ->
            Loaded(0, FALSE,
                   <<"Error: Could not determine AWS region from deployment file.">>,
                   FALSE, <<>>)
      [] OTHER ->
            Loaded(IF RootComponents(f) = <<>> THEN 0 ELSE -1, FALSE, <<>>, TRUE,
                   RootComponents(f))

LoadFile(s, f) == IF s = "health.py" THEN LoadHealth(f) ELSE LoadSample(f)

\* The loop's scripts start with the file unread; the module's client manager
\* holds no client (health.py builds ClientManager() at import).
InitRun ==
    /\ script \in Scripts
    /\ file \in Files
    /\ pc = "load"
    /\ components = <<>>
    /\ client_manager = ClientManager_init("")
    /\ doc = Null

InitGets ==
    /\ script = "ClientManager"
    /\ file = NoFile
    /\ pc = "gets"
    /\ components = <<>>
    /\ client_manager = ClientManager_init(Region)
    /\ doc = Null

InitNew ==
    /\ script = "new.py"
    /\ file = NoFile
    /\ pc = "parsed"
    /\ components = <<>>
    /\ client_manager = ClientManager_init(Region)
    /\ doc \in Docs

\* What every program starts with.
InitRest ==
    /\ searched = "no"
    /\ report = <<>>
    /\ arn_report = <<>>
    /\ checked = <<>>
    /\ i = 1
    /\ out = <<>>
    /\ exit_code = -1
    /\ errors = <<>>
    /\ created = <<>>
    /\ gets = <<>>
    /\ calls = <<>>
    /\ invoked = <<>>

\* No call of one function alone is under way.
NoCall == [op |-> "none"]

Init ==
    /\ InitRun \/ InitGets \/ InitNew
    /\ InitRest
    /\ wrapper = NoWrapper
    /\ table = NoCall
    /\ search = NoCall

\* The script reads its file and goes up to the loop, or ends.
Load ==
    /\ pc = "load"
    /\ \E l \in {LoadFile(script, file)} :
          /\ errors' = errors \o l.errors
          /\ exit_code' = l.exit
          /\ components' = l.components
          /\ client_manager' = IF l.built THEN ClientManager_init(file.region)
                                ELSE client_manager
          /\ pc' = IF l.crashed THEN "crashed"
                   ELSE IF l.exit # -1 THEN "done" ELSE "loop"
    /\ UNCHANGED <<script, fnVars, wrapper, file, i, out, created, gets, calls, invoked, newVars, checked>>

\* One pass of the loop of health.py's __main__ and of run_health_checks; the
\* script ends after the pass for the last component, with status 0, or with
\* status 1 when an exception leaves the loop.
CheckComponent ==
    /\ pc = "loop"
    /\ i <= Len(components)
    /\ LET fn == RegistryGet(script, components[i].type)
       IN \E resp \in Responses(fn) :
          \E resp2 \in SecondResponses(fn, resp) :
          \E b \in {LoopBody(script, i, components[i],
                               [cm |-> client_manager, id |-> Len(created) + 1,
                                resp |-> resp, resp2 |-> resp2])} :
               /\ out' = out \o b.lines
               /\ client_manager' = b.cm
               /\ created' = created \o Tagged(i, b.created)
               /\ gets' = gets \o b.gets
               /\ calls' = calls \o Tagged(i, Answered(b.calls, resp, resp2))
               /\ invoked' = invoked \o Tagged(i, b.invoked)
               /\ pc' = IF b.aborted THEN "aborted"
                        ELSE IF i = Len(components) THEN "done" ELSE "loop"
               /\ i' = IF b.aborted THEN i ELSE i + 1
               /\ exit_code' = IF b.aborted THEN 1
                               ELSE IF i = Len(components) THEN 0 ELSE -1
    /\ UNCHANGED <<script, fnVars, wrapper, file, errors, components, newVars, checked>>

\* The service names and region overrides of the direct calls of get.
GetServices == {"rds", "iam", "kms"}
GetOverrides == {"", "eu-west-1"}

\* client_manager.get(service_name, region_override), called on the manager directly.
Get ==
    /\ pc = "gets"
    /\ Len(gets) < MaxGets
    /\ \E service_name \in GetServices, region_override \in GetOverrides :
        LET g == ClientManager_get(client_manager, service_name, region_override,
                                   Len(created) + 1)
        IN /\ client_manager' = g.self
           /\ created' = created \o Tagged(0, g.created)
           /\ gets' = Append(gets, GetReturned(service_name, region_override, g.client))
    /\ UNCHANGED <<script, fnVars, wrapper, pc, loadVars, components, i, out, calls, invoked, newVars,
                   checked>>

\* new.py: __main__ extracts the components of the file before it compares them.
Extract ==
    /\ pc = "parsed"
    /\ components' = extract_location_and_services_from_yaml(doc).components
    /\ pc' = "compare"
    /\ UNCHANGED <<script, fnVars, wrapper, loadVars, i, out, client_manager, created, gets, calls,
                   invoked, newVars, checked>>

\* paginator = client.get_paginator('search'); paginator.paginate(QueryString='*'):
\* the one provider call of an inventory search, none when no search was run;
\* of its answer the log keeps how the search ended and existing_resources, the
\* resources the comparison got of it.
SearchCalls(ended, existing_resources) ==
    IF ended = "no" THEN <<>>
    ELSE Tagged(0, <<[api |-> "search", arg |-> <<"*">>,
                      answer |-> [tag |-> ended, resources |-> existing_resources]]>>)

\* The answers a comparison of the components can get: none to draw when it
\* raises ValueError before it searches.
SearchesOf(parsed, region) ==
    IF region = Null /\ extract_location_and_services_from_yaml(parsed).region = Null
    THEN {NoResp}
    ELSE SearchResponses

\* new.py: compare_components_with_inventory on the parsed file; components
\* keeps what it extracted.
CompareComponents ==
    /\ pc = "compare"
    /\ \E region \in {Null, Str(InvRegion)} :
       \E resp \in SearchesOf(doc, region) :
       \E c \in {compare_components_with_inventory(doc, region, resp)} :
           /\ components' = c.components
           /\ searched' = c.searched
           /\ report' = c.report
           /\ calls' = calls \o SearchCalls(c.searched, c.inventory)
           /\ pc' = IF c.raised THEN "aborted" ELSE "done"
    /\ UNCHANGED <<script, fnVars, wrapper, loadVars, i, out, client_manager, created, gets,
                   invoked, doc, arn_report, checked>>

\* new.py: compare_arns_with_inventory on the parsed file; it reads the file
\* itself and uses no extracted component.
CompareArns ==
    /\ pc = "parsed"
    /\ \E resp \in SearchResponses :
       \E c \in {compare_arns_with_inventory(doc, InvRegion, resp)} :
           /\ searched' = c.searched
           /\ arn_report' = c.report
           /\ calls' = calls \o SearchCalls(c.searched, c.inventory)
           /\ pc' = "done"
    /\ UNCHANGED <<script, fnVars, wrapper, loadVars, components, i, out, client_manager, created, gets,
                   invoked, doc, report, checked>>

Next == Load \/ CheckComponent \/ Get \/ Extract \/ CompareComponents \/ CompareArns

Spec == Init /\ [][Next]_vars

\* ------------------------------------------------------------------ one check function
\* The names a check function is called with: the loop passes no empty name.
DeclNames == StringsUpTo(MaxNameLen) \ {<<>>}

\* The properties it is called with: comp.get('properties', {}) of a component
\* with none, with `properties:` left empty, with a key_alias, with an identifier.
CheckProps ==
    {PropsMap(<<>>, <<>>), PropsNull, PropsMap(<<"b">>, <<>>), PropsMap(<<>>, <<"b">>)}

CheckFunctions == {RegistrySample[t] : t \in DOMAIN RegistrySample}

InitCheck ==
    /\ script = "check"
    /\ file = NoFile
    /\ pc = "call"
    /\ components = <<>>
    /\ client_manager = ClientManager_init(Region)
    /\ doc = Null
    /\ InitRest
    /\ wrapper = NoWrapper
    /\ table = NoCall
    /\ search = NoCall

\* check_function(name, properties), for any registered function and any answer
\* of the provider.
ApplyCheck ==
    /\ pc = "call"
    /\ \E fn \in CheckFunctions, name \in DeclNames, properties \in CheckProps :
        \E resp \in ResponsesUpTo(fn, ResNames, MaxList), resp2 \in Responses2(fn) :
          \E r \in {CallCheck(fn, name, properties,
                               [cm |-> client_manager, id |-> Len(created) + 1,
                                resp |-> resp, resp2 |-> resp2])} :
               /\ checked' = <<[fn |-> fn, name |-> name, properties |-> properties,
                               resp |-> resp, resp2 |-> resp2, result |-> r]>>
               /\ client_manager' = r.cm
               /\ created' = created \o Tagged(0, r.created)
               /\ pc' = "done"
    /\ UNCHANGED <<script, fnVars, wrapper, loadVars, components, i, out, gets, calls, invoked, newVars>>

SpecCheck == InitCheck /\ [][ApplyCheck]_vars

\* ------------------------------------------------------------------ a wrapper's run
InitStatus ==
    /\ script \in WrapperScripts
    /\ pc = "start"
    /\ file = NoFile
    /\ components = <<>>
    /\ client_manager = ClientManager_init("")
    /\ doc = Null
    /\ InitRest
    /\ table = NoCall
    /\ search = NoCall
    /\ wrapper \in [cli_isfile : BOOLEAN, yaml_isfile : BOOLEAN, run : RunOutcomes,
                    launched : {FALSE}, returned : {0}]

\* main() up to `exit_code = execute_...(...)`: main.py warns of the placeholder
\* correlation id first.
Execute ==
    /\ pc = "start"
    /\ LET r == IF script = "main.py"
                THEN execute_eac_deployment_status(CORRELATION_ID, wrapper.run)
                ELSE execute_eac_deployment_status_with_yaml(DEPLOYMENT_YAML_PATH, wrapper)
           warning == IF script = "main.py"
                      THEN <<"Warning: CORRELATION_ID is set to the default placeholder value.",
                             "Please update the CORRELATION_ID variable with your actual correlation ID.">>
                      ELSE <<>>
       IN /\ wrapper' = [wrapper EXCEPT !.launched = r.launched, !.returned = r.code]
          /\ out' = out \o warning \o r.printed
          /\ errors' = errors \o r.errs
          /\ pc' = "returned"
    /\ UNCHANGED <<script, fnVars, file, exit_code, components, i, client_manager, created, gets,
                   calls, invoked, newVars, checked>>

\* sys.exit(exit_code)
SysExit ==
    /\ pc = "returned"
    /\ exit_code' = sys_exit(wrapper.returned)
    /\ pc' = "done"
    /\ UNCHANGED <<script, fnVars, wrapper, file, errors, loopVars, newVars, checked>>

NextStatus == Execute \/ SysExit

SpecStatus == InitStatus /\ [][NextStatus]_vars

\* ------------------------------------------------------------------ one call of _shorten or of the table
\* The longest of the short texts, and how far past the cap an ARN goes.
MaxText == 6
MaxPast == 2

\* An ARN of n characters.
LongArn(n) == ArnPrefix \o [k \in 1..(n - Len(ArnPrefix)) |-> IF k % 2 = 1 THEN "a" ELSE "b"]

\* ARNs about as long as the cap: one shorter, one as long, and longer ones.
LongArns == {LongArn(n) : n \in (ARN_WIDTH_CAP - 1)..(ARN_WIDTH_CAP + MaxPast)}

\* The texts _shorten is given, and the values of max_len, from 3 on.
ShortenTexts == StringsUpTo(MaxText + 1) \cup LongArns
ShortenWidths == (3..MaxText) \cup {ARN_WIDTH_CAP}

\* The resources a table is printed of: without ARN, with a short one, with a long one.
TableResources ==
    {[ResourceType |-> <<"s", ":", "b">>, ARN |-> arn, Region |-> InvRegion,
      Service |-> <<"s">>, Name |-> <<>>] : arn \in {<<>>, Arn1} \cup LongArns}

InitTable ==
    /\ script = "new.py"
    /\ pc = "call"
    /\ file = NoFile
    /\ components = <<>>
    /\ client_manager = ClientManager_init(Region)
    /\ doc = Null
    /\ InitRest
    /\ wrapper = NoWrapper
    /\ search = NoCall
    /\ table \in [op : {"_shorten"}, text : ShortenTexts, max_len : ShortenWidths]
                 \cup [op : {"_print_resources_table"},
                       resources : SeqsUpTo(TableResources, MaxList)]

\* _shorten(text, max_len)
Shorten ==
    /\ pc = "call"
    /\ table.op = "_shorten"
    /\ table' = [op |-> "_shorten", text |-> table.text, max_len |-> table.max_len,
                 shortened |-> _shorten(table.text, table.max_len)]
    /\ pc' = "done"
    /\ UNCHANGED <<script, search, wrapper, loadVars, loopVars, newVars, checked>>

\* _print_resources_table(resources)
PrintResourcesTable ==
    /\ pc = "call"
    /\ table.op = "_print_resources_table"
    /\ \E t \in {_print_resources_table(table.resources)} :
        table' = [op |-> "_print_resources_table", resources |-> table.resources,
                  col_widths |-> t.col_widths, header |-> t.header, lines |-> t.lines]
    /\ pc' = "done"
    /\ UNCHANGED <<script, search, wrapper, loadVars, loopVars, newVars, checked>>

NextTable == Shorten \/ PrintResourcesTable

SpecTable == InitTable /\ [][NextTable]_vars

\* ------------------------------------------------------------------ one call of the search
\* The most items a search of its own lists.
MaxFound == 3

\* Every way to cut a listing into pages, in order, none of them empty.
RECURSIVE Cuts(_)
Cuts(l) ==
    IF l = <<>> THEN {<<>>}
    ELSE UNION {{<<SubSeq(l, 1, k)>> \o rest : rest \in Cuts(SubSeq(l, k + 1, Len(l)))} :
                   k \in 1..Len(l)}

\* What the paginated search answers: a listing of distinct items in any pages,
\* no page at all, one empty page, or an exception.
FoundResponses ==
    UNION {{Ok(ps) : ps \in Cuts(l)} :
             l \in {x \in SeqsUpTo(RawResources, MaxFound) :
                       \A j, k \in 1..Len(x) : j # k => x[j] # x[k]}}
    \cup {Ok(<< <<>> >>), ClientError(<<>>, "ResourceNotFoundException"), OtherException(<<>>)}

\* The regions asked for: the inventory's and the other one.
SearchRegions == {InvRegion, <<"q">>}

InitSearch ==
    /\ script = "new.py"
    /\ pc = "call"
    /\ file = NoFile
    /\ components = <<>>
    /\ client_manager = ClientManager_init(Region)
    /\ doc = Null
    /\ InitRest
    /\ wrapper = NoWrapper
    /\ table = NoCall
    /\ search \in [op : {"search"}, region : SearchRegions, resp : FoundResponses]

\* get_all_services_using_resource_explorer(region): the search, the table it
\* prints of the resources it kept, and the result it returns.
Search ==
    /\ pc = "call"
    /\ search.op = "search"
    /\ \E result \in {get_all_services_using_resource_explorer(search.region, search.resp)} :
        /\ search' = [op |-> "search", region |-> search.region, resp |-> search.resp,
                      result |-> result]
        /\ calls' = calls \o SearchCalls(IF result.none THEN "failed" ELSE "ok",
                                          result.resources)
        /\ table' = IF result.none THEN table
                    ELSE LET t == _print_resources_table(result.resources)
                         IN [op |-> "_print_resources_table", resources |-> result.resources,
                             col_widths |-> t.col_widths, header |-> t.header,
                             lines |-> t.lines]
    /\ pc' = "done"
    /\ UNCHANGED <<script, wrapper, loadVars, components, i, out, client_manager, created, gets,
                   invoked, newVars, checked>>

SpecSearch == InitSearch /\ [][Search]_vars

\* ------------------------------------------------------------------ what the claims speak of
\* The component at k has the type and the name the loop asks for.
Named(k) == components[k].type # "" /\ components[k].name # <<>>

\* ... and the script's registry holds a check function for its type.
Checkable(k) == Named(k) /\ components[k].type \in DOMAIN HEALTH_CHECK_REGISTRY(script)

\* ... and the script's registry holds none.
Unregistered(k) ==
    Named(k) /\ components[k].type \notin DOMAIN HEALTH_CHECK_REGISTRY(script)

\* The lines printed for the component at k.
LinesOf(k) == {j \in 1..Len(out) : out[j].idx = k}

\* The loop went through the component at k: it printed a line for it, and
\* called its check function if its type has one.
Processed(k) ==
    /\ LinesOf(k) # {}
    /\ Checkable(k) => \E j \in 1..Len(invoked) : invoked[j].idx = k

\* A line that reports a failure of the check: an exception the check raised,
\* or the provider's error the check turned into a status.
FailureLine(line) ==
    \/ line.kind = "unexpected"
    \/ line.kind = "status" /\ line.status.fmt = "AWS API Error: {0}"

\* The templates of the statuses that say "not found".
NotFoundFmts ==
    {"Cluster containing name '{0}' not found.",
     "Instance with name tag like '*{0}*' not found.",
     "Load Balancer containing name '{0}' not found.",
     "Role containing name '{0}' not found.",
     "ECS Cluster '{0}' not found or error: {1}",
     "ECS Cluster '{0}' not found.",
     "KMS Key with alias '{0}' not found.",
     "SQS Queue containing name '{0}' not found.",
     "Lambda function containing name '{0}' not found."}

C2_UnsupportedType ==
    script \in Scripts =>
        /\ pc # "aborted"
        /\ \A k \in 1..(i - 1) :
            Unregistered(k) =>
                /\ Cardinality(LinesOf(k)) = 1
                /\ \A j \in LinesOf(k) :
                    /\ out[j].kind = "unsupported"
                    /\ out[j].status = NotImplemented(components[k].type)
                /\ \A j \in 1..Len(invoked) : invoked[j].idx # k
                /\ \A j \in 1..Len(created) : created[j].idx # k
                /\ \A j \in 1..Len(calls) : calls[j].idx # k
        /\ \A j \in 1..Len(out) :
            out[j].kind = "unsupported" =>
                /\ Unregistered(out[j].idx)
                /\ out[j].status.fmt \notin NotFoundFmts
                /\ \A h \in 1..Len(out) :
                    out[h].kind = "status" => out[h].status.fmt # out[j].status.fmt

\* health.py has met an SQS queue, which its registry does not hold, beside a
\* component its check reported as not found.
C2_Witness ==
    /\ script = "health.py"
    /\ pc = "done"
    /\ \E j, h \in 1..Len(out) :
        /\ out[j].kind = "unsupported" /\ out[j].type = "SQS"
        /\ out[h].kind = "status" /\ out[h].status.fmt \in NotFoundFmts

\* ------------------------------------------------------------------ C3
\* C3: whatever the provider answers (a listing of any shape, a ClientError,
\* any other exception) and whatever the component's properties are, a check
\* function hands back a status: no exception leaves it.
C3_CheckNeverRaises ==
    \A k \in 1..Len(checked) : ~checked[k].result.raised

\* ------------------------------------------------------------------ C4
\* The templates of the statuses that say "Found".
FoundFmts ==
    {"Found Cluster: {0}, Status: {1}",
     "Found Instance: {0}, State: {1}, InstanceStatus: {2}, SystemStatus: {3}",
     "Found Instance: {0}, State: {1}. Status checks not available (may be stopped).",
     "Found LB: {0}, State: {1}",
     "Found Role containing name: {0}",
     "Found Cluster: {0}, Status: {1}, ActiveServices: {2}",
     "Found Key: {0} via alias '{1}', State: {2}",
     "Found SQS Queue: {0}",
     "Found Lambda: {0}, Runtime: {1}, State: {2}"}

\* The provider's answer to a call is a failure of the lookup, not a verdict on
\* the resource: an exception, a ClientError that is not KMS's not-found, or an
\* ECS `failures` entry whose reason is not MISSING.
ErrorAnswer(call) ==
    \/ call.answer.tag = "Exception"
    \/ call.answer.tag = "ClientError" /\ call.answer.code # "NotFoundException"
    \/ /\ call.api = "describe_clusters"
       /\ call.answer.tag = "ok"
       /\ call.answer.body.failures # <<>>
       /\ call.answer.body.failures[1].reason # <<"MISSING">>

\* C4: found, definitively not found and error are three kinds of result.  A
\* component whose lookup failed is reported neither as found nor as not found
\* (an ECS describe_clusters failure of any reason included), and when the
\* Resource Explorer search fails no entry of either report says exists = false.
C4_OutcomesNeverCollapse ==
    /\ \A j \in 1..Len(calls) :
        ErrorAnswer(calls[j].what) =>
            \A h \in LinesOf(calls[j].idx) :
                out[h].kind = "status" =>
                    out[h].status.fmt \notin (NotFoundFmts \cup FoundFmts)
    /\ searched = "failed" =>
        /\ \A k \in 1..Len(report) : report[k].exists
        /\ \A k \in 1..Len(arn_report) : arn_report[k].exists

\* ------------------------------------------------------------------ C5
\* C5: in the components report an entry says exists exactly when its list of
\* matches is not empty, and in the ARN report exactly when a matched resource
\* is attached.
C5_ExistsIffMatched ==
    /\ \A k \in 1..Len(report) : report[k].exists <=> Len(report[k].matches) > 0
    /\ \A k \in 1..Len(arn_report) :
        arn_report[k].exists <=> arn_report[k].matched_resource # Null

\* A components report over an inventory that is not empty, with one component
\* that has matches and one that has none.
C5_Witness ==
    /\ script = "new.py"
    /\ pc = "done"
    /\ searched = "ok"
    /\ \E k, h \in 1..Len(report) :
        /\ report[k].exists /\ Len(report[k].matches) > 0
        /\ ~report[h].exists /\ report[h].matches = <<>>

\* ------------------------------------------------------------------ C6
\* C6: the output keeps the order of the components.  The loop's lines are one
\* per component, the j-th line for the j-th component; the components report
\* holds one entry per extracted component, the k-th entry for the k-th one.
C6_OrderPreserved ==
    /\ script \in Scripts =>
        /\ pc # "aborted" => Len(out) = i - 1
        /\ \A j \in 1..Len(out) :
            /\ out[j].idx = j
            /\ out[j].type = components[j].type
            /\ out[j].name = components[j].name
    /\ script = "new.py" /\ pc = "done" =>
        /\ Len(report) = Len(components)
        /\ \A k \in 1..Len(report) : report[k].component = components[k]

\* A components report of two entries for two different components.
C6_Witness ==
    /\ script = "new.py"
    /\ pc = "done"
    /\ Len(report) = 2
    /\ components[1] # components[2]
    /\ report[1].component = components[1]

\* ------------------------------------------------------------------ C7
\* C7: when the run is over, every component a reported component names under
\* connectsTo has a connection line of its own, tagged with the parent's name
\* and printed after the parent's line.
C7_ConnectionsReported ==
    script \in Scripts /\ pc = "done" =>
        \A k \in 1..Len(components) :
            \A c \in 1..Len(components[k].connectsTo) :
                \E j \in LinesOf(k), h \in 1..Len(out) :
                    /\ j < h
                    /\ out[h].parent = components[k].name
                    /\ out[h].type = components[k].connectsTo[c].type
                    /\ out[h].name = components[k].connectsTo[c].name

\* ------------------------------------------------------------------ C8
\* What a listing check compares the declared name with, for each listed
\* element: the cluster's identifier, the load balancer's, the role's and the
\* function's name, and for SQS the listed element itself, the queue's URL.
ListedNames(fn, listing) ==
    CASE fn = "_check_rds_aurora" -> Keys(listing, "DBClusterIdentifier")
      [] fn = "_check_load_balancer" -> Keys(listing, "LoadBalancerName")
      [] fn = "_check_iam_role" -> Keys(listing, "RoleName")
      [] fn = "_check_lambda_function" -> Keys(listing, "FunctionName")
      [] fn = "_check_sqs_queue" -> listing

\* C8: for every listing the provider answers with and every declared name, a
\* listing check reports found, naming the first listed element whose name
\* contains the declared name, and reports not found exactly when no listed
\* element's name contains it.
C8_FirstMatchWins ==
    \A k \in 1..Len(checked) :
        LET c == checked[k]
            names == ListedNames(c.fn, c.resp.body)
            first == FirstContaining(c.name, names)
        IN c.fn \in ListingChecks /\ c.resp.tag = "ok" =>
            /\ first # 0 =>
                /\ ~c.result.raised
                /\ c.result.status.fmt \in FoundFmts
                /\ c.result.status.args[1] = names[first]
            /\ first = 0 <=>
                (~c.result.raised /\ c.result.status.fmt \in NotFoundFmts)

\* ------------------------------------------------------------------ C9
\* C9: a check that looks a resource up by its key uses the identifier the
\* component's properties give before the component's name.  The KMS check of
\* a component without key_alias looks the key up under the component's name,
\* and the RDS check of a component whose properties give a cluster identifier
\* answers what a lookup of that identifier answers.
C9_OverrideThenName ==
    \A k \in 1..Len(checked) :
        LET c == checked[k]
            env == [cm |-> ClientManager_init(Region), id |-> 1,
                    resp |-> c.resp, resp2 |-> c.resp2]
        IN /\ c.fn = "_check_kms_key" /\ c.properties.kind = "map" =>
                \E h \in 1..Len(c.result.calls) :
                    /\ c.result.calls[h].api = "describe_key"
                    /\ c.result.calls[h].arg =
                        <<"alias/">> \o (IF c.properties.key_alias # <<>>
                                         THEN c.properties.key_alias ELSE c.name)
           /\ c.fn = "_check_rds_aurora" /\ c.properties.custom_cluster_name # <<>> =>
                c.result.status =
                    _check_rds_aurora(c.properties.custom_cluster_name,
                                      c.properties, env).status

\* ------------------------------------------------------------------ C10
\* The calls of get that asked for service_name, in order.
GetsOf(service_name) == {j \in 1..Len(gets) : gets[j].service = service_name}

\* C10: for every service name, a client manager builds one client at most,
\* and builds it on the first get of the name; every later get of the name
\* returns that same object, whatever region it is asked with; and no client
\* exists for a name that was never asked for.
C10_OneClientPerService ==
    \A s \in Services :
        /\ Cardinality({k \in 1..Len(created) : created[k].what.service = s}) <= 1
        /\ (\E k \in 1..Len(created) : created[k].what.service = s) <=> GetsOf(s) # {}
        /\ client_manager._clients[s] # NoClient <=> GetsOf(s) # {}
        /\ \A j \in GetsOf(s) :
            /\ gets[j].client = client_manager._clients[s]
            /\ \E k \in 1..Len(created) : created[k].what = gets[j].client
            /\ \A h \in GetsOf(s) : gets[h].client = gets[j].client
        /\ \A j \in GetsOf(s) :
            (\A h \in GetsOf(s) : j <= h) =>
                gets[j].client.region = Or(gets[j].override, client_manager.region)

\* Two gets of one name with different regions that returned the same object,
\* and a get of another name that returned another.
C10_Witness ==
    /\ script = "ClientManager"
    /\ Len(gets) = 3
    /\ gets[1].service = gets[2].service
    /\ gets[1].override # gets[2].override
    /\ gets[1].client = gets[2].client
    /\ gets[3].service # gets[1].service
    /\ gets[3].client.id # gets[1].client.id

\* ------------------------------------------------------------------ C11
\* The script is over.
Ended == pc \in {"done", "crashed", "aborted"}

\* Every component the file declares was reported as found, and every
\* connection a component declares has a line of its own that says found.
AllFound ==
    /\ Len(out) >= Len(file.components)
    /\ \A k \in 1..Len(file.components) :
        /\ \E j \in LinesOf(k) :
            out[j].kind = "status" /\ out[j].status.fmt \in FoundFmts
        /\ \A c \in 1..Len(file.components[k].connectsTo) :
            \E h \in 1..Len(out) :
                /\ out[h].parent = file.components[k].name
                /\ out[h].kind = "status" /\ out[h].status.fmt \in FoundFmts

\* C11: when a script of the loop is over, its exit status is not zero if the
\* file could not be loaded; otherwise it is zero exactly when every declared
\* component and connection was reported as found.
C11_ExitStatus ==
    script \in Scripts /\ Ended =>
        /\ file.kind # "ok" => exit_code # 0
        /\ file.kind = "ok" => (exit_code = 0 <=> AllFound)

\* ------------------------------------------------------------------ C12
\* C12: when the deployment file is missing or is not parseable YAML, the
\* script prints an error and ends with a status that is not zero, and it
\* builds no client, calls no check function and makes no provider call.
C12_InputError ==
    script \in Scripts /\ file.kind \in {"missing", "unparseable"} /\ pc # "load" =>
        /\ Ended
        /\ errors # <<>>
        /\ exit_code \notin {-1, 0}
        /\ created = <<>>
        /\ invoked = <<>>
        /\ calls = <<>>
        /\ \A sv \in Services : client_manager._clients[sv] = NoClient

\* ------------------------------------------------------------------ C13
\* The list of components a parsed document declares: the one under spec when
\* that is a list that is not empty, else the one at the root.
DeclaredComponents(d) ==
    LET spec == DictGet(d, "spec", Null)
        under == IF spec.t = "dict" THEN DictGet(spec, "components", Null) ELSE Null
        root == DictGet(d, "components", Null)
    IN IF under.t = "list" /\ under.items # <<>> THEN under.items
       ELSE IF root.t = "list" THEN root.items ELSE <<>>

\* C13: both layouts are accepted.  What new.py extracts is the components of
\* the list the document declares (under spec, else at the root, whatever the
\* spec key holds), and the components the loop's scripts go through are the
\* ones their file declares, at the root or under spec.
C13_BothLayouts ==
    /\ script = "new.py" /\ pc = "compare" =>
        components = ExtractComps(DeclaredComponents(doc))
    /\ script \in Scripts /\ pc \in {"loop", "done"} /\ file.kind = "ok"
            /\ file.region # "" =>
        components = file.components

\* ------------------------------------------------------------------ C14
\* C14: a named component of type Route53Record gets one line, and it is a
\* fixed "not implemented" status (the Route53 check's own, or the loop's for a
\* type without a check), never a found one, whatever its name and properties;
\* checking it makes no provider call and builds no client.
C14_Route53NotImplemented ==
    script \in Scripts =>
        \A k \in 1..(i - 1) :
            Named(k) /\ components[k].type = "Route53Record" =>
                /\ Cardinality(LinesOf(k)) = 1
                /\ \A j \in LinesOf(k) :
                    /\ out[j].kind \in {"status", "unsupported"}
                    /\ out[j].status \in
                        {Status("Skipped: Route53 check is complex and not fully implemented. It requires Hosted Zone ID and record details.", <<>>),
                         NotImplemented("Route53Record")}
                    /\ out[j].status.fmt \notin FoundFmts
                /\ \A j \in 1..Len(calls) : calls[j].idx # k
                /\ \A j \in 1..Len(created) : created[j].idx # k

\* sample-yaml-reading.py, whose registry holds the Route53 check, has reported
\* two DNS records with different names and properties.
C14_Witness ==
    /\ script = "sample-yaml-reading.py"
    /\ pc = "done"
    /\ Len(out) = 2
    /\ out[1].type = "Route53Record" /\ out[1].kind = "status"
    /\ out[2].type = "Route53Record" /\ out[2].kind = "status"
    /\ out[1].name # out[2].name
    /\ components[1].properties # components[2].properties
    /\ \E j \in 1..Len(invoked) : invoked[j].what = "_check_route53_record"

\* ------------------------------------------------------------------ C15
\* C15: the KMS check of a component whose properties hold key_alias = a asks
\* the provider once, for the key 'alias/' + a.  Key metadata in the answer
\* gives the found status with the returned key id and key state; a ClientError
\* with code NotFoundException gives the not-found status for alias a; any other
\* ClientError gives the API-error status.
C15_KmsByAlias ==
    \A k \in 1..Len(checked) :
        LET c == checked[k]
            a == c.properties.key_alias
        IN c.fn = "_check_kms_key" /\ c.properties.kind = "map" /\ a # <<>> =>
            /\ c.result.calls = <<Call("describe_key", <<"alias/">> \o a)>>
            /\ c.resp.tag = "ok" =>
                /\ ~c.result.raised
                /\ c.result.status.fmt = "Found Key: {0} via alias '{1}', State: {2}"
                /\ c.result.status.args = <<c.resp.body.KeyId, a, c.resp.body.KeyState>>
            /\ c.resp.tag = "ClientError" /\ c.resp.code = "NotFoundException" =>
                /\ ~c.result.raised
                /\ c.result.status = Status("KMS Key with alias '{0}' not found.", <<a>>)
            /\ c.resp.tag = "ClientError" /\ c.resp.code # "NotFoundException" =>
                /\ ~c.result.raised
                /\ c.result.status = ApiError(c.resp)

\* The KMS check was called for a component named otherwise than its alias, and
\* the provider returned the key abcd-1234 in state Enabled.
C15_Witness ==
    /\ Len(checked) = 1
    /\ checked[1].fn = "_check_kms_key"
    /\ checked[1].properties.key_alias = <<"b">>
    /\ checked[1].name # <<"b">>
    /\ checked[1].resp = Ok(KmsBody(<<"abcd-1234">>, <<"Enabled">>))
    /\ checked[1].result.status.args = <<<<"abcd-1234">>, <<"b">>, <<"Enabled">>>>

CallsOf(k) ==
    LET at == SelectSeq(calls, LAMBDA c : c.idx = k)
    IN [j \in 1..Len(at) |-> at[j].what]

\* The pass for the component at k as a first run makes it: the manager built
\* for the file's region and holding no client.
FreshPass(k, resp, resp2) ==
    LoopBody(script, k, components[k],
             [cm |-> ClientManager_init(file.region), id |-> 1,
              resp |-> resp, resp2 |-> resp2])

ReadOperations ==
    {"describe_db_clusters", "describe_instances", "describe_instance_status",
     "describe_load_balancers", "describe_clusters", "describe_key",
     "list_roles", "list_queues", "list_functions", "search"}

ProcessRan ==
    wrapper.launched /\ wrapper.run.tag \in {"completed", "UnicodeDecodeError"}

\* C19: a wrapper returns, and its script exits with, the exit code of the CLI
\* process whenever that process ran (and ended with an exit code), and 1
\* whenever it did not run; and status-2.py does not call subprocess.run when
\* the CLI or the YAML is no file.
C19_ExitCodeOfCli ==
    script \in WrapperScripts /\ pc \in {"returned", "done"} =>
        /\ ProcessRan /\ wrapper.run.returncode >= 0 =>
            /\ wrapper.returned = wrapper.run.returncode
            /\ pc = "done" => exit_code = wrapper.run.returncode
        /\ ~ProcessRan =>
            /\ wrapper.returned = 1
            /\ pc = "done" => exit_code = 1
        /\ script = "status-2.py" /\ ~(wrapper.cli_isfile /\ wrapper.yaml_isfile) =>
            ~wrapper.launched

\* ------------------------------------------------------------------ C20
\* existing_resources of the comparison that ran: the inventory, in its order.
Inventory == IF calls = <<>> THEN <<>> ELSE calls[1].what.answer.resources

\* One of the three ways a component matches a resource: its name, not empty,
\* is the resource's name or lies in the resource's ARN, or its type, not
\* empty, lies in the resource's type, letter case apart.
NameOrTypeMatch(comp, r) ==
    LET name == Lower(TextOf(comp.name))
        type == Lower(TextOf(comp.type))
    IN \/ name # <<>> /\ name = Lower(r.Name)
       \/ name # <<>> /\ Contains(name, Lower(r.ARN))
       \/ type # <<>> /\ Contains(type, Lower(r.ResourceType))

\* C20: compare_components_with_inventory reports a component as existing
\* exactly when some resource of the inventory matches it by name or by type;
\* its matches are all the matching resources and no other, in the inventory's
\* order; and a component with neither name nor type has no match.
C20_MatchRule ==
    script = "new.py" /\ pc = "done" /\ arn_report = <<>> =>
        \A k \in 1..Len(report) :
            LET comp == report[k].component
                hits == {j \in 1..Len(Inventory) : NameOrTypeMatch(comp, Inventory[j])}
            IN /\ report[k].exists <=> hits # {}
               /\ report[k].matches =
                    SelectSeq(Inventory, LAMBDA r : NameOrTypeMatch(comp, r))
               /\ TextOf(comp.name) = <<>> /\ TextOf(comp.type) = <<>> =>
                    ~report[k].exists /\ report[k].matches = <<>>

\* A report over an inventory of two resources: a component without a type
\* matches both by its name, written in another letter case, and has them in
\* the inventory's order; a component with neither name nor type has no match.
C20_Witness ==
    /\ script = "new.py"
    /\ pc = "done"
    /\ Len(Inventory) = 2
    /\ Inventory[1] # Inventory[2]
    /\ \E k, h \in 1..Len(report) :
        /\ report[k].exists
        /\ report[k].matches = Inventory
        /\ TextOf(report[k].component.type) = <<>>
        /\ TextOf(report[k].component.name) # Lower(TextOf(report[k].component.name))
        /\ TextOf(report[h].component.name) = <<>>
        /\ TextOf(report[h].component.type) = <<>>
        /\ ~report[h].exists

\* ------------------------------------------------------------------ C21
\* Every text of a document, in the order of the file.
RECURSIVE TextsOf(_)
RECURSIVE TextsOfAll(_)

TextsOfAll(nodes) ==
    IF nodes = <<>> THEN <<>> ELSE TextsOf(Head(nodes)) \o TextsOfAll(Tail(nodes))

TextsOf(node) ==
    CASE node.t = "str" -> <<node.v>>
      [] node.t = "list" -> TextsOfAll(node.items)
      [] node.t = "dict" -> TextsOfAll([k \in 1..Len(node.items) |-> node.items[k].val])
      [] OTHER -> <<>>

\* The ARN strings of a document, repeats included, in the order of the file.
ArnTexts(node) == SelectSeq(TextsOf(node), LAMBDA s : StartsWith(s, ArnPrefix))

FirstAt(xs, x) == CHOOSE k \in 1..Len(xs) : xs[k] = x /\ \A j \in 1..(k - 1) : xs[j] # x

\* An inventory holds an ARN equal to the requested one, or one that is a
\* suffix of it, or one of which it is a suffix.
HeldBy(existing_resources, arn) ==
    \E h \in 1..Len(existing_resources) :
        /\ existing_resources[h].ARN # <<>>
        /\ \/ existing_resources[h].ARN = arn
           \/ EndsWith(arn, existing_resources[h].ARN)
           \/ EndsWith(existing_resources[h].ARN, arn)

ArnReportOf(parsed, rep, existing_resources) ==
    LET found == ArnTexts(parsed)
    IN /\ {rep[k].requested_arn : k \in 1..Len(rep)} = {found[k] : k \in 1..Len(found)}
       /\ \A j, k \in 1..Len(rep) :
            j < k => FirstAt(found, rep[j].requested_arn) < FirstAt(found, rep[k].requested_arn)
       /\ \A k \in 1..Len(rep) :
            rep[k].exists <=> HeldBy(existing_resources, rep[k].requested_arn)

\* C21: compare_arns_with_inventory reports each distinct ARN string of the
\* document once, in the order of first occurrence, however often it occurs and
\* also when it lies under a key named arn; an entry says exists exactly when
\* the inventory holds an ARN equal to the requested one, or one that is a
\* suffix of it, or one of which it is a suffix.
C21_OneEntryPerArn ==
    [][pc = "parsed" /\ pc' = "done" => ArnReportOf(doc, arn_report', Inventory')]_vars

\* A document that holds each of its two ARNs twice, one of them under a key
\* named arn, compared with an inventory that holds the first with a character
\* before it and the end of the second: two entries, both found by a suffix.
C21_Witness ==
    /\ script = "new.py"
    /\ pc = "done"
    /\ Len(ArnTexts(doc)) = 4
    /\ Len(arn_report) = 2
    /\ \E h \in 1..Len(Inventory) : Inventory[h].ARN = <<"x">> \o arn_report[1].requested_arn
    /\ \A h \in 1..Len(Inventory) : Inventory[h].ARN # arn_report[1].requested_arn
    /\ \E h \in 1..Len(Inventory) :
        /\ Inventory[h].ARN # <<>>
        /\ Inventory[h].ARN # arn_report[2].requested_arn
        /\ EndsWith(arn_report[2].requested_arn, Inventory[h].ARN)
    /\ arn_report[1].exists /\ arn_report[2].exists

PrefixOf(resource_type) ==
    IF \A k \in 1..Len(resource_type) : resource_type[k] # ":" THEN resource_type
    ELSE SubSeq(resource_type, 1,
                (CHOOSE k \in 1..Len(resource_type) :
                    /\ resource_type[k] = ":"
                    /\ \A j \in 1..(k - 1) : resource_type[j] # ":") - 1)

RECURSIVE SumOver(_, _)
SumOver(f, keys) ==
    IF keys = {} THEN 0
    ELSE LET k == CHOOSE x \in keys : TRUE IN f[k] + SumOver(f, keys \ {k})

\* C23: whatever pages the search answers, every resource of the list that
\* get_all_services_using_resource_explorer returns has a region (its Region
\* field, else the region of its ARN) equal to the region asked for, the counts
\* per service add up to total_resources, and total_services is the number of
\* distinct service prefixes among the resources kept.
C23_SearchTotals ==
    pc = "done" /\ search.op = "search" /\ ~search.result.none =>
        LET result == search.result
            kept == result.resources
        IN /\ \A k \in 1..Len(kept) :
                (IF kept[k].Region # <<>> THEN kept[k].Region
                 ELSE _get_region_from_arn(kept[k].ARN)) = search.region
           /\ SumOver(result.services, DOMAIN result.services) = result.total_resources
           /\ result.total_services =
                Cardinality({PrefixOf(kept[k].ResourceType) : k \in 1..Len(kept)})

\* A search answered in two pages with three items: one of another region, which
\* is dropped, one kept for the region of its ARN, and one of another service.
C23_Witness ==
    /\ pc = "done"
    /\ search.op = "search"
    /\ search.resp.tag = "ok"
    /\ Len(search.resp.body) = 2
    /\ Len(Flatten(search.resp.body)) = 3
    /\ \E k \in 1..3 : Flatten(search.resp.body)[k].Region \notin {<<>>, search.region}
    /\ \E k \in 1..3 :
        /\ Flatten(search.resp.body)[k].Region = <<>>
        /\ _get_region_from_arn(Flatten(search.resp.body)[k].Arn) = search.region
    /\ ~search.result.none
    /\ search.result.total_resources = 2
    /\ search.result.total_services = 2

====
